---- MODULE Spec2Model ----
(***************************************************************************)
(* A model of the market relationship and arbitrage analysis backend:      *)
(*   - RateLimiter.acquire          (polymarket_api_enhanced.py)           *)
(*   - RelationService              (relation_service.py)                  *)
(*   - create_all_relations         (create_relations.py)                  *)
(*   - _calculate_expected_values   (market_analysis.py)                   *)
(*   - PolymarketVolatilityCalculator (polymarket_api_enhanced.py)         *)
(*   - migrate_volatility           (migrate_volatility.py)                *)
(* Time is counted in clock ticks.  Probabilities, prices, similarities    *)
(* and correlations are exact fractions over a fixed denominator that is   *)
(* stated where each is introduced.                                        *)
(***************************************************************************)
EXTENDS Integers, Sequences, FiniteSets, TLC

VARIABLES
    \* ---- RateLimiter ----
    clock,          \* the value time.time() returns now
    max_requests,   \* RateLimiter.max_requests
    time_window,    \* RateLimiter.time_window
    requests,       \* RateLimiter.requests (the deque of timestamps)
    pc,             \* per task: "idle" (not inside acquire) or "sleeping"
    wakeAt,         \* per sleeping task: the clock value its sleep ends at
    log,            \* history: <<task, timestamp>> of every acquire() that returned
    returned,       \* history: per task, how many acquire() calls returned
    callers,        \* the tasks that call acquire()
    \* ---- ExpectedValueEngine ----
    ev,             \* the last result of _calculate_expected_values
    \* ---- RelationService ----
    rows,           \* the rows of table market_relations
    similar,        \* the vector service: per market, what find_similar_to_market returns
    lastOp,         \* history: the last call made, its arguments and its result
    opCount,        \* history: how many calls were made
    \* ---- PolymarketVolatilityCalculator, migrate_volatility ----
    vol,            \* the last result of a volatility method
    mig,            \* migrate_volatility: its locals, table market_volatility
                    \* and, as history, what its last iteration did
    \* ---- coroutines in flight ----
    coros,          \* two create_relations_for_market coroutines: their locals
    fetch           \* get_active_markets: its locals and the requests it made

rlVars == <<clock, max_requests, time_window, requests, pc, wakeAt, log,
            returned, callers>>

evVars == <<ev>>

relVars == <<rows, similar, lastOp, opCount>>

volVars == <<vol, mig>>

ioVars == <<coros, fetch>>

vars == <<clock, max_requests, time_window, requests, pc, wakeAt, log,
          returned, callers, ev, rows, similar, lastOp, opCount, vol, mig,
          coros, fetch>>

\* ------------------------------------------------------------------------
\* Bounds
\* ------------------------------------------------------------------------
NTasks == 2
MaxTime == 4
MaxCalls == 4

Tasks == 1..NTasks

\* ------------------------------------------------------------------------
\* RateLimiter
\* ------------------------------------------------------------------------

\* while self.requests and self.requests[0] < now - self.time_window: popleft()
RECURSIVE Evict(_, _, _)
Evict(q, now, window) ==
    IF q # <<>> /\ Head(q) < now - window
    THEN Evict(Tail(q), now, window)
    ELSE q

\* sleep_time = self.time_window - (now - self.requests[0])
SleepTime(q, now, window) == window - (now - Head(q))

\* The limiter is at its limit and the caller has to sleep.
MustSleep(q, now) ==
    /\ Len(q) >= max_requests
    /\ SleepTime(q, now, time_window) > 0

\* Mutant: nothing is evicted and a call at the limit always sleeps a whole
\* window.
AcquireBodyWithoutEviction(t) == IF Len(requests) >= max_requests THEN /\ pc' = [pc EXCEPT ![t] = "sleeping"] /\ wakeAt' = [wakeAt EXCEPT ![t] = clock + time_window] /\ UNCHANGED <<requests, log, returned>> ELSE /\ requests' = Append(requests, clock) /\ pc' = [pc EXCEPT ![t] = "idle"] /\ wakeAt' = [wakeAt EXCEPT ![t] = 0] /\ log' = Append(log, <<t, clock>>) /\ returned' = [returned EXCEPT ![t] = @ + 1]

\* One pass through the body of acquire(), from reading the clock to either the
\* await of asyncio.sleep or the append: no await lies in between, so the pass
\* is one step of the event loop.
AcquireBody(t) ==
    LET now == clock
        q   == Evict(requests, now, time_window)
    IN  IF MustSleep(q, now)
        THEN /\ requests' = q
             /\ pc' = [pc EXCEPT ![t] = "sleeping"]
             /\ wakeAt' = [wakeAt EXCEPT ![t] = now + SleepTime(q, now, time_window)]
             /\ UNCHANGED <<log, returned>>
        ELSE /\ requests' = Append(q, now)
             /\ pc' = [pc EXCEPT ![t] = "idle"]
             /\ wakeAt' = [wakeAt EXCEPT ![t] = 0]
             /\ log' = Append(log, <<t, now>>)
             /\ returned' = [returned EXCEPT ![t] = @ + 1]

\* A task calls acquire().
Acquire(t) ==
    /\ t \in callers
    /\ pc[t] = "idle"
    /\ Len(log) + Cardinality({u \in Tasks : pc[u] = "sleeping"}) < MaxCalls
    /\ AcquireBody(t)
    /\ UNCHANGED <<clock, max_requests, time_window, callers, evVars, relVars, volVars, ioVars>>

\* asyncio.sleep(sleep_time) is over: return await self.acquire()
Wake(t) ==
    /\ pc[t] = "sleeping"
    /\ clock >= wakeAt[t]
    /\ AcquireBody(t)
    /\ UNCHANGED <<clock, max_requests, time_window, callers, evVars, relVars, volVars, ioVars>>

\* Time passes.
Tick ==
    /\ clock < MaxTime
    /\ clock' = clock + 1
    /\ UNCHANGED <<max_requests, time_window, requests, pc, wakeAt, log,
                   returned, callers, evVars, relVars, volVars, ioVars>>

\* The limiter as constructed and not used.
LimiterUnused ==
    /\ clock = 0
    /\ max_requests = 1
    /\ time_window = 1
    /\ requests = <<>>
    /\ pc = [t \in Tasks |-> "idle"]
    /\ wakeAt = [t \in Tasks |-> 0]
    /\ log = <<>>
    /\ returned = [t \in Tasks |-> 0]
    /\ callers = {}

EngineUnused == ev = [status |-> "none"]

\* No volatility method was called; migrate_volatility has not run: its
\* locals are unbound and table market_volatility holds no row.
VolatilityUnused ==
    /\ vol = [op |-> "none"]
    /\ mig = [table |-> {}, proxy_method |-> "unbound", processed |-> 0,
              successful |-> 0, failed |-> 0, last |-> [op |-> "none"]]

\* Table market_relations holds no row and no call was made.
\* No coroutine was started.
NothingInFlight ==
    /\ coros = [pc |-> "none"]
    /\ fetch = [pc |-> "none"]

StoreEmpty ==
    /\ rows = {}
    /\ similar = <<>>
    /\ lastOp = [op |-> "none"]
    /\ opCount = 0

InitLimiter(who) ==
    /\ EngineUnused
    /\ VolatilityUnused
    /\ NothingInFlight
    /\ StoreEmpty
    /\ clock = 0
    /\ max_requests \in {1, 2}
    /\ time_window \in {1, 2}
    /\ requests = <<>>
    /\ pc = [t \in Tasks |-> "idle"]
    /\ wakeAt = [t \in Tasks |-> 0]
    /\ log = <<>>
    /\ returned = [t \in Tasks |-> 0]
    /\ callers = who

NextLimiter ==
    \/ Tick
    \/ \E t \in Tasks : Acquire(t)
    \/ \E t \in Tasks : Wake(t)

\* One caller.
InitLimiter1 == InitLimiter({1})
SpecLimiter1 == InitLimiter1 /\ [][NextLimiter]_vars

\* Several tasks share the limiter.
InitLimiterN == InitLimiter(Tasks)
SpecLimiterN == InitLimiterN /\ [][NextLimiter]_vars

\* The timestamps recorded by returned calls that lie in the window (t - W, t].
InWindow(t) == {i \in DOMAIN log : t - time_window < log[i][2] /\ log[i][2] <= t}

\* C1: with a single caller, at every instant t at most max_requests of the
\* timestamps recorded by returned acquire() calls lie in the sliding window of
\* length time_window that ends at t.
C1_SlidingWindowBound ==
    callers = {1} =>
        \A t \in 0..MaxTime : Cardinality(InWindow(t)) <= max_requests

\* C2: with several tasks calling acquire() on the shared limiter, the sliding
\* window bound still holds and every call that returned recorded exactly one
\* timestamp.
C2_ConcurrentBound ==
    /\ \A t \in 0..MaxTime : Cardinality(InWindow(t)) <= max_requests
    /\ \A u \in Tasks :
         Cardinality({i \in DOMAIN log : log[i][1] = u}) = returned[u]

\* C23: acquire() records a timestamp only after a check, made with a freshly
\* read clock and after evicting expired entries, found fewer than
\* max_requests entries in the queue, and the check is repeated after every
\* wake-up; hence the queue never holds more than max_requests entries.
C23_QueueWithinLimit ==
    /\ Len(requests) <= max_requests
    /\ \A i \in DOMAIN log :
          Cardinality({j \in 1..(i - 1) : log[j][2] >= log[i][2] - time_window}) < max_requests

\* ------------------------------------------------------------------------
\* RateLimiter: termination of acquire()
\*
\* Calls are made up to time MaxTime, and up to then a task may be resumed
\* any time after its sleep is over.  Time goes on beyond MaxTime for as long
\* as a caller sleeps, and from then on a task is resumed at the instant its
\* sleep is over; a sleep lasts at most time_window, so every sleep has ended
\* by Horizon.
\* ------------------------------------------------------------------------

Horizon == MaxTime + 2 * MaxCalls

\* Time passes while a caller sleeps.
LateTick ==
    /\ clock >= MaxTime
    /\ clock < Horizon
    /\ \E t \in Tasks : pc[t] = "sleeping"
    /\ \A t \in Tasks : pc[t] = "sleeping" => clock < wakeAt[t]
    /\ clock' = clock + 1
    /\ UNCHANGED <<max_requests, time_window, requests, pc, wakeAt, log,
                   returned, callers, evVars, relVars, volVars, ioVars>>

NextLimiterLive ==
    \/ Tick
    \/ LateTick
    \/ \E t \in Tasks : clock <= MaxTime /\ Acquire(t)
    \/ \E t \in Tasks : Wake(t)

\* Time advances, and the event loop resumes a task whose sleep is over.
SpecLimiterLive ==
    /\ InitLimiterN
    /\ [][NextLimiterLive]_vars
    /\ WF_vars(Tick \/ LateTick)
    /\ \A t \in Tasks : WF_vars(Wake(t))

ProbDen == 100 * 100 * 200

Min2(x, y) == IF x <= y THEN x ELSE y
Max2(x, y) == IF x >= y THEN x ELSE y
Abs(x) == IF x >= 0 THEN x ELSE -x

\* The inputs the engine is applied to: a grid of prices and correlations with
\* the values next to every threshold of the code.
PriceGrid == {5 * k : k \in 0..20} \cup {1, 49, 51, 52, 64, 66, 99}
CorrelationGrid == {10 * k : k \in 0..10} \cup {69, 71, 79, 81, 95, 98, 99}

\* market.outcome_prices is empty or None
NoPrices == 0 - 1

\* float(market.outcome_prices[0]) if market.outcome_prices else 0.5
MarketPrice(x) == IF x = NoPrices THEN 50 ELSE x

\* p_both before it is clamped, over ProbDen
PBothRaw(p1, p2, c) ==
    IF c > 80
    THEN IF p1 + p2 > 100
         THEN Min2(p1, p2) * (100 - c) * 200
         ELSE p1 * p2 * (100 + c) * 2
    ELSE p1 * p2 * (200 + c)

\* p_both = max(0, min(p_both, min(market_p1, market_p2)))
PBoth(p1, p2, c) ==
    Max2(0, Min2(PBothRaw(p1, p2, c), Min2(p1, p2) * 100 * 200))

\* Mutant: a renormalisation tolerance of 0.01.
MustNormalizeLoose(total) == total > 0 /\ Abs(total - ProbDen) * 100 > ProbDen

\* total > 0 and abs(total - 1.0) > 0.001
MustNormalize(total) == total > 0 /\ Abs(total - ProbDen) * 1000 > ProbDen

\* The four scenario probabilities, floored at 0 and renormalised when their
\* total is off by more than the tolerance.  Dividing each by total is kept
\* exact by making total the denominator.
Scenarios(p1, p2, c) ==
    LET both    == PBoth(p1, p2, c)
        only1   == Max2(0, p1 * 100 * 200 - both)
        only2   == Max2(0, p2 * 100 * 200 - both)
        neither == Max2(0, ProbDen - both
                              - (p1 * 100 * 200 - both) - (p2 * 100 * 200 - both))
        total   == both + only1 + only2 + neither
    IN  [p_both |-> both, p_1_only |-> only1, p_2_only |-> only2,
         p_neither |-> neither,
         den |-> IF MustNormalize(total) THEN total ELSE ProbDen]

\* Mutant: the correlation test is not strict.
ArbitrageAppliesFrom70(p1, p2, c) == c >= 70 /\ Abs(p1 - p2) > 15

\* if correlation > 0.7 and abs(market_p1 - market_p2) > 0.15
ArbitrageApplies(p1, p2, c) == c > 70 /\ Abs(p1 - p2) > 15

\* ev_arbitrage, hundredths
EvArbitrage(p1, p2, c) ==
    IF ArbitrageApplies(p1, p2, c)
    THEN IF p1 > p2
         THEN 100 - ((100 - p1) + p2)
         ELSE 100 - (p1 + (100 - p2))
    ELSE 0

\* The five strategy EVs in the order of all_evs, over 100 * den.
StrategyEvs(p1, p2, c) ==
    LET s == Scenarios(p1, p2, c)
        true_p1     == s.p_both + s.p_1_only
        true_p2     == s.p_both + s.p_2_only
        true_not_p1 == s.p_2_only + s.p_neither
        true_not_p2 == s.p_1_only + s.p_neither
    IN  << IF p1 > 0 THEN true_p1 * 100 - p1 * s.den ELSE 0,
           IF p2 > 0 THEN true_p2 * 100 - p2 * s.den ELSE 0,
           IF p1 < 100 THEN true_not_p1 * 100 - (100 - p1) * s.den ELSE 0,
           IF p2 < 100 THEN true_not_p2 * 100 - (100 - p2) * s.den ELSE 0,
           EvArbitrage(p1, p2, c) * s.den >>

\* The keys of strategies, in insertion order.
StrategyNames ==
    <<"Bet YES on Event 1", "Bet YES on Event 2", "Bet NO on Event 1",
      "Bet NO on Event 2", "Arbitrage (opposite sides)">>

\* Mutant: the last entry that holds the maximum.
BestStrategyLast(evs) ==
    CHOOSE i \in 1..Len(evs) :
        /\ \A j \in 1..Len(evs) : evs[j] <= evs[i]
        /\ \A j \in (i + 1)..Len(evs) : evs[j] < evs[i]

\* max(strategies.items(), key=...): the first entry that holds the maximum
BestStrategy(evs) ==
    CHOOSE i \in 1..Len(evs) :
        /\ \A j \in 1..Len(evs) : evs[j] <= evs[i]
        /\ \A j \in 1..(i - 1) : evs[j] < evs[i]

ExpectedValues(x1, x2, c) ==
    LET p1 == MarketPrice(x1)
        p2 == MarketPrice(x2)
        s  == Scenarios(p1, p2, c)
        e  == StrategyEvs(p1, p2, c)
    IN  [status |-> "ok", market1_price |-> p1, market2_price |-> p2,
         correlation_used |-> c,
         p_both |-> s.p_both, p_1_only |-> s.p_1_only,
         p_2_only |-> s.p_2_only, p_neither |-> s.p_neither, den |-> s.den,
         evs |-> e, ev_arbitrage |-> EvArbitrage(p1, p2, c),
         best |-> BestStrategy(e), best_ev |-> e[BestStrategy(e)],
         best_strategy |-> StrategyNames[BestStrategy(e)]]

\* One call of the engine; the model follows a single call per behaviour.
CalculateExpectedValues(x1, x2, c) ==
    /\ ev.status = "none"
    /\ ev' = ExpectedValues(x1, x2, c)
    /\ UNCHANGED <<rlVars, relVars, volVars, ioVars>>

InitEngine ==
    /\ LimiterUnused
    /\ EngineUnused
    /\ VolatilityUnused
    /\ NothingInFlight
    /\ StoreEmpty

NextEngine ==
    /\ ev.status = "none"
    /\ \E x1, x2 \in PriceGrid \cup {NoPrices}, c \in CorrelationGrid :
          CalculateExpectedValues(x1, x2, c)

SpecEngine == InitEngine /\ [][NextEngine]_vars

\* The total of the four scenario probabilities, over ev.den.
ScenarioTotal == ev.p_both + ev.p_1_only + ev.p_2_only + ev.p_neither

ScenariosNonNegative ==
    /\ ev.p_both >= 0
    /\ ev.p_1_only >= 0
    /\ ev.p_2_only >= 0
    /\ ev.p_neither >= 0

\* C9 as stated: for every priceA, priceB and correlation in [0,1] the four
\* scenario probabilities are non-negative and sum to 1 within 1e-6.
C9_SumWithinMillionth ==
    ev.status = "ok" =>
        /\ ScenariosNonNegative
        /\ Abs(ScenarioTotal - ev.den) <= ev.den \div 1000000

\* C9 amended: for every priceA, priceB and correlation in [0,1] the four
\* scenario probabilities are non-negative and sum to 1 within 0.001, the
\* tolerance below which the engine does not renormalise.
C9_SumWithinThousandth ==
    ev.status = "ok" =>
        /\ ScenariosNonNegative
        /\ Abs(ScenarioTotal - ev.den) * 1000 <= ev.den

\* C9 witness: a result whose raw total was off by more than the tolerance and
\* was renormalised.
C9_Witness ==
    /\ ev.status = "ok"
    /\ ev.den # ProbDen
    /\ ScenarioTotal = ev.den

MaxOps == 3

\* The market ids in use: three markets of the store and one id it lacks.
MarketIds == {1, 2, 3, 4}

\* An entry of outcome_prices that is the empty string, and one float() rejects.
EmptyString == 0 - 1
Unparsable == 0 - 2

\* db.get_market_by_id returns None for id 4.
InStore(m) == m \in {1, 2, 3}

\* The markets of the store: outcome prices and volume by market id.
MarketById(m) ==
    CASE m % 3 = 1 -> [id |-> m, outcome_prices |-> <<5, 5>>, volume |-> 0]
      [] m % 3 = 2 -> [id |-> m, outcome_prices |-> <<6, 4>>, volume |-> 1000]
      [] OTHER     -> [id |-> m, outcome_prices |-> <<9, 1>>, volume |-> 1000000]

\* ------------------------------------------------------------------------
\* RelationService: calculation methods
\* ------------------------------------------------------------------------

\* [float(p) for p in outcome_prices if p]
NonEmpty(prices) == SelectSeq(prices, LAMBDA x : x # EmptyString)

\* Mutant: the price difference keeps its sign.
calculate_correlation_signed(market1, market2) ==
    IF market1.outcome_prices = <<>> \/ market2.outcome_prices = <<>>
    THEN 0
    ELSE LET prices1 == NonEmpty(market1.outcome_prices)
             prices2 == NonEmpty(market2.outcome_prices)
         IN  IF \/ \E i \in DOMAIN prices1 : prices1[i] = Unparsable
                \/ \E i \in DOMAIN prices2 : prices2[i] = Unparsable
             THEN 0
             ELSE IF Len(prices1) < 2 \/ Len(prices2) < 2
             THEN 0
             ELSE Max2(0, Min2(10, 10 - Min2(prices1[1] - prices2[1], 10)))

\* calculate_correlation, tenths
calculate_correlation(market1, market2) ==
    IF market1.outcome_prices = <<>> \/ market2.outcome_prices = <<>>
    THEN 0
    ELSE LET prices1 == NonEmpty(market1.outcome_prices)
             prices2 == NonEmpty(market2.outcome_prices)
         IN  IF \/ \E i \in DOMAIN prices1 : prices1[i] = Unparsable
                \/ \E i \in DOMAIN prices2 : prices2[i] = Unparsable
             THEN 0      \* float() raises ValueError
             ELSE IF Len(prices1) < 2 \/ Len(prices2) < 2
             THEN 0
             ELSE LET price_diff == Abs(prices1[1] - prices2[1])
                      correlation == 10 - Min2(price_diff, 10)
                  IN  Max2(0, Min2(10, correlation))

\* The least 2 + volume1 + volume2 at which log1p(avg_volume) / log1p(1e6)
\* reaches k tenths: twice 1000001^(k/10), rounded up.
LogStep == <<8, 32, 127, 503, 2001, 7963, 31698, 126192, 502378, 2000002>>

\* Mutant: no volume counts as the reference volume.
VolumeFactorZeroFull(volume1, volume2) ==
    IF volume1 + volume2 <= 0
    THEN 10
    ELSE LET reached == {k \in 1..10 : 2 + volume1 + volume2 >= LogStep[k]}
             ratio   == IF reached = {} THEN 0
                        ELSE CHOOSE k \in reached : \A j \in reached : j <= k
         IN  Max2(1, Min2(10, ratio))

\* volume_factor, tenths (the logarithm ratio is rounded down to a tenth)
VolumeFactor(volume1, volume2) ==
    IF volume1 + volume2 <= 0
    THEN 1
    ELSE LET reached == {k \in 1..10 : 2 + volume1 + volume2 >= LogStep[k]}
             ratio   == IF reached = {} THEN 0
                        ELSE CHOOSE k \in reached : \A j \in reached : j <= k
         IN  Max2(1, Min2(10, ratio))

\* calculate_pressure, thousandths
calculate_pressure(similarity, correlation, volume1, volume2) ==
    Max2(0, Min2(1000, similarity * correlation * VolumeFactor(volume1, volume2)))

\* ------------------------------------------------------------------------
\* RelationService: calls of the calculation methods
\* ------------------------------------------------------------------------

\* The outcome_prices tried, tenths: none, one price, two or three prices,
\* empty strings among them, strings float() rejects, a price above 1.
OutcomePriceLists ==
    {<<>>, <<5>>, <<5, 5>>, <<6, 4>>, <<9, 1>>, <<0, 10>>, <<15, 0>>,
     <<EmptyString, 5>>, <<EmptyString, 3, 7>>, <<EmptyString, EmptyString>>,
     <<Unparsable, 5>>, <<5, Unparsable>>}

\* Similarities and correlations, tenths; volumes.
UnitGrid == 0..10

VolumeGrid == {0, 3, 500, 1000, 50000, 1000000, 3000000}

CalculateCorrelation(prices1, prices2) ==
    /\ lastOp.op = "none"
    /\ lastOp' = [op |-> "calculate_correlation",
                  market1 |-> [id |-> 1, outcome_prices |-> prices1, volume |-> 0],
                  market2 |-> [id |-> 2, outcome_prices |-> prices2, volume |-> 0],
                  result |-> calculate_correlation([id |-> 1, outcome_prices |-> prices1, volume |-> 0],
                                                   [id |-> 2, outcome_prices |-> prices2, volume |-> 0])]
    /\ UNCHANGED <<rlVars, evVars, volVars, ioVars, rows, similar, opCount>>

CalculatePressure(similarity, correlation, volume1, volume2) ==
    /\ lastOp.op = "none"
    /\ lastOp' = [op |-> "calculate_pressure", similarity |-> similarity,
                  correlation |-> correlation, volume1 |-> volume1,
                  volume2 |-> volume2,
                  result |-> calculate_pressure(similarity, correlation, volume1, volume2)]
    /\ UNCHANGED <<rlVars, evVars, volVars, ioVars, rows, similar, opCount>>

NextCalculation ==
    \/ \E prices1, prices2 \in OutcomePriceLists : CalculateCorrelation(prices1, prices2)
    \/ \E similarity, correlation \in UnitGrid, volume1, volume2 \in VolumeGrid :
          CalculatePressure(similarity, correlation, volume1, volume2)

InitCalculation ==
    /\ LimiterUnused
    /\ EngineUnused
    /\ VolatilityUnused
    /\ NothingInFlight
    /\ StoreEmpty

SpecCalculation == InitCalculation /\ [][NextCalculation]_vars

\* C19: calculate_correlation gives the same result with its two markets
\* exchanged, also when outcome prices are missing, fewer than 2 or
\* unparsable, and the result lies in [0,1].
C19_CorrelationSymmetric ==
    lastOp.op = "calculate_correlation" =>
        /\ lastOp.result = calculate_correlation(lastOp.market2, lastOp.market1)
        /\ 0 <= lastOp.result /\ lastOp.result <= 10

\* C19 witness: two markets with usable and different first prices.
C19_Witness ==
    /\ lastOp.op = "calculate_correlation"
    /\ lastOp.market1.outcome_prices = <<9, 1>>
    /\ lastOp.market2.outcome_prices = <<EmptyString, 3, 7>>
    /\ lastOp.result = 4

\* C20: calculate_pressure does not decrease when similarity, correlation or
\* the average of the two volumes grows with the other inputs held fixed
\* (similarity and correlation in [0,1], volumes non-negative), and its
\* result lies in [0,1].
C20_PressureMonotone ==
    lastOp.op = "calculate_pressure" =>
        /\ 0 <= lastOp.result /\ lastOp.result <= 1000
        /\ \A similarity \in UnitGrid :
              similarity >= lastOp.similarity
              => calculate_pressure(similarity, lastOp.correlation, lastOp.volume1, lastOp.volume2) >= lastOp.result
        /\ \A correlation \in UnitGrid :
              correlation >= lastOp.correlation
              => calculate_pressure(lastOp.similarity, correlation, lastOp.volume1, lastOp.volume2) >= lastOp.result
        /\ \A volume1, volume2 \in VolumeGrid :
              volume1 + volume2 >= lastOp.volume1 + lastOp.volume2
              => calculate_pressure(lastOp.similarity, lastOp.correlation, volume1, volume2) >= lastOp.result

\* C20 witness: a call with no volume at all, where the minimum volume
\* factor applies, and a positive result.
C20_Witness ==
    /\ lastOp.op = "calculate_pressure"
    /\ lastOp.volume1 + lastOp.volume2 = 0
    /\ lastOp.similarity = 8
    /\ lastOp.correlation = 9
    /\ lastOp.result = 72

\* ------------------------------------------------------------------------
\* RelationService: stored relations
\* ------------------------------------------------------------------------

\* Mutant: the row is written with the market ids as given.
RelationDataAsGiven(market_id_1, market_id_2, similarity, correlation, pressure) ==
    [market_id_1 |-> market_id_1, market_id_2 |-> market_id_2,
     similarity |-> similarity, correlation |-> correlation,
     pressure |-> pressure]

\* data = {...} in create_relation
RelationData(market_id_1, market_id_2, similarity, correlation, pressure) ==
    [market_id_1 |-> Min2(market_id_1, market_id_2),
     market_id_2 |-> Max2(market_id_1, market_id_2),
     similarity |-> similarity, correlation |-> correlation,
     pressure |-> pressure]

\* Mutant: a plain insert.
InsertOnly(table, data) == table \cup {data}

\* Mutant: the upsert resolves conflicts on market_id_1 alone.
UpsertOnFirstId(table, data) == {r \in table : r.market_id_1 # data.market_id_1} \cup {data}

\* table('market_relations').upsert(data, on_conflict='market_id_1,market_id_2')
Upsert(table, data) ==
    {r \in table : ~(r.market_id_1 = data.market_id_1
                     /\ r.market_id_2 = data.market_id_2)} \cup {data}

\* The table after a create_relation call that did not raise.
create_relation(table, market_id_1, market_id_2, similarity, correlation, pressure) ==
    Upsert(table, RelationData(market_id_1, market_id_2, similarity,
                               correlation, pressure))

\* The table after delete_relation.
delete_relation(table, market_id_1, market_id_2) ==
    {r \in table : ~(r.market_id_1 = Min2(market_id_1, market_id_2)
                     /\ r.market_id_2 = Max2(market_id_1, market_id_2))}

\* .or_("market_id_1.eq.{market_id},market_id_2.eq.{market_id}")
Touching(table, market_id) ==
    {r \in table : r.market_id_1 = market_id \/ r.market_id_2 = market_id}

\* The table after delete_all_relations_for_market.
delete_all_relations_for_market(table, market_id) ==
    table \ Touching(table, market_id)

\* Mutant: the first item whose create_relation raises ends the batch.
RECURSIVE BatchFromStopping(_, _, _, _, _, _)
BatchFromStopping(table, relations, failing, i, created, failed) == IF i > Len(relations) THEN [table |-> table, created |-> created, failed |-> failed, total |-> Len(relations)] ELSE IF i \in failing THEN [table |-> table, created |-> created, failed |-> failed + 1, total |-> Len(relations)] ELSE BatchFromStopping(create_relation(table, relations[i].market_id_1, relations[i].market_id_2, relations[i].similarity, relations[i].correlation, relations[i].pressure), relations, failing, i + 1, created + 1, failed)

\* create_relations_batch from item i on; failing is the set of items whose
\* create_relation raises.  Yields the table and the counts.
RECURSIVE BatchFrom(_, _, _, _, _, _)
BatchFrom(table, relations, failing, i, created, failed) ==
    IF i > Len(relations)
    THEN [table |-> table, created |-> created, failed |-> failed,
          total |-> Len(relations)]
    ELSE IF i \in failing
    THEN BatchFrom(table, relations, failing, i + 1, created, failed + 1)
    ELSE BatchFrom(create_relation(table, relations[i].market_id_1,
                                   relations[i].market_id_2,
                                   relations[i].similarity,
                                   relations[i].correlation,
                                   relations[i].pressure),
                   relations, failing, i + 1, created + 1, failed)

\* Mutant: the batch reports every item as created.
create_relations_batch_counting_all(table, relations, failing) == [BatchFrom(table, relations, failing, 1, 0, 0) EXCEPT !.created = Len(relations)]

create_relations_batch(table, relations, failing) ==
    BatchFrom(table, relations, failing, 1, 0, 0)

\* The rows that join the unordered pair {a, b}.
RowsOfPair(table, a, b) ==
    {r \in table : \/ (r.market_id_1 = a /\ r.market_id_2 = b)
                   \/ (r.market_id_1 = b /\ r.market_id_2 = a)}

\* The values callers pass to create_relation: <<similarity, correlation, pressure>>.
CallerValues == {<<8, 9, 360>>, <<9, 4, 36>>}

\* The MarketRelationCreate items callers pass to create_relations_batch.
BatchItems ==
    {[market_id_1 |-> 2, market_id_2 |-> 1, similarity |-> 8,
      correlation |-> 9, pressure |-> 360],
     [market_id_1 |-> 1, market_id_2 |-> 3, similarity |-> 9,
      correlation |-> 4, pressure |-> 36]}

\* The lists callers pass to create_relations_batch: up to three items.
Batches == UNION {[1..k -> BatchItems] : k \in 0..3}

Called == opCount < MaxOps /\ opCount' = opCount + 1

CreateRelation(a, b, v, ok) ==
    /\ Called
    /\ rows' = IF ok THEN create_relation(rows, a, b, v[1], v[2], v[3]) ELSE rows
    /\ lastOp' = IF ok
                 THEN [op |-> "create_relation", ok |-> TRUE,
                       market_id_1 |-> a, market_id_2 |-> b,
                       similarity |-> v[1], correlation |-> v[2],
                       pressure |-> v[3],
                       replaced |-> \E r \in RowsOfPair(rows, a, b) :
                                       \/ r.similarity # v[1]
                                       \/ r.correlation # v[2]
                                       \/ r.pressure # v[3]]
                 ELSE [op |-> "create_relation", ok |-> FALSE]
    /\ UNCHANGED <<rlVars, evVars, volVars, ioVars, similar>>

CreateRelationsBatch(relations, failing) ==
    /\ Called
    /\ LET result == create_relations_batch(rows, relations, failing)
       IN  /\ rows' = result.table
           /\ lastOp' = [op |-> "create_relations_batch", relations |-> relations,
                         failing |-> failing, created |-> result.created,
                         failed |-> result.failed, total |-> result.total]
    /\ UNCHANGED <<rlVars, evVars, volVars, ioVars, similar>>

DeleteRelation(a, b) ==
    /\ Called
    /\ rows' = delete_relation(rows, a, b)
    /\ lastOp' = [op |-> "delete_relation", market_id_1 |-> a, market_id_2 |-> b,
                  deleted |-> rows' # rows]
    /\ UNCHANGED <<rlVars, evVars, volVars, ioVars, similar>>

DeleteAllRelationsForMarket(m) ==
    /\ Called
    /\ rows' = delete_all_relations_for_market(rows, m)
    /\ lastOp' = [op |-> "delete_all_relations_for_market", market_id |-> m,
                  deleted |-> Cardinality(Touching(rows, m))]
    /\ UNCHANGED <<rlVars, evVars, volVars, ioVars, similar>>

InitRelations ==
    /\ LimiterUnused
    /\ EngineUnused
    /\ VolatilityUnused
    /\ NothingInFlight
    /\ StoreEmpty

NextRepository ==
    \/ \E a, b \in MarketIds, v \in CallerValues, ok \in BOOLEAN :
          CreateRelation(a, b, v, ok)
    \/ \E relations \in Batches :
          \E failing \in SUBSET (1..Len(relations)) :
             CreateRelationsBatch(relations, failing)
    \/ \E a, b \in MarketIds : DeleteRelation(a, b)
    \/ \E m \in MarketIds : DeleteAllRelationsForMarket(m)

SpecRepository == InitRelations /\ [][NextRepository]_vars

\* C3: after any sequence of create_relation, create_relations_batch,
\* delete_relation and delete_all_relations_for_market calls the table holds
\* at most one row per unordered market pair, and every row has
\* market_id_1 = min and market_id_2 = max of its pair.
C3_CanonicalUniqueRows ==
    /\ \A r \in rows : r.market_id_1 <= r.market_id_2
    /\ \A a, b \in MarketIds : Cardinality(RowsOfPair(rows, a, b)) <= 1

\* C3 witness: after an earlier call, a batch that gave the pair {1, 2} with
\* the larger id first stored its row, and the table holds it once as (1, 2).
C3_Witness ==
    /\ opCount >= 2
    /\ lastOp.op = "create_relations_batch"
    /\ lastOp.failed = 0
    /\ \E i \in DOMAIN lastOp.relations :
          lastOp.relations[i].market_id_1 > lastOp.relations[i].market_id_2
    /\ Cardinality(RowsOfPair(rows, 1, 2)) = 1
    /\ \E r \in rows : r.market_id_1 = 1 /\ r.market_id_2 = 2
    /\ Cardinality(rows) >= 2

\* C4: a create_relation call that succeeds leaves exactly one row for its
\* unordered pair, keyed (min, max) and carrying the similarity, correlation
\* and pressure of this call, whichever order the ids were given in by this
\* and by earlier calls; repeating the identical call leaves the table
\* unchanged.
C4_UpsertIdempotent ==
    [][ (opCount' = opCount + 1 /\ lastOp'.op = "create_relation" /\ lastOp'.ok)
        => /\ RowsOfPair(rows', lastOp'.market_id_1, lastOp'.market_id_2)
                = {[market_id_1 |-> Min2(lastOp'.market_id_1, lastOp'.market_id_2),
                    market_id_2 |-> Max2(lastOp'.market_id_1, lastOp'.market_id_2),
                    similarity |-> lastOp'.similarity,
                    correlation |-> lastOp'.correlation,
                    pressure |-> lastOp'.pressure]}
           /\ (lastOp = lastOp' => rows' = rows) ]_vars

\* C4 witness: create_relation(b, a, ...) with b > a replaced the row that an
\* earlier call stored for the pair with other values.
C4_Witness ==
    /\ lastOp.op = "create_relation"
    /\ lastOp.ok
    /\ lastOp.market_id_1 > lastOp.market_id_2
    /\ lastOp.replaced
    /\ Cardinality(RowsOfPair(rows, lastOp.market_id_1, lastOp.market_id_2)) = 1

\* The items of a batch whose create_relation did not raise.
Attempted(relations, failing) == DOMAIN relations \ failing

\* Item i is the last item of the batch that did not raise for its pair.
LastForPair(relations, failing, i) == \A j \in Attempted(relations, failing) : (j > i) => {relations[j].market_id_1, relations[j].market_id_2} # {relations[i].market_id_1, relations[i].market_id_2}

\* C17: in create_relations_batch a persistence failure of one item neither
\* stops the batch nor undoes earlier items: every item that did not fail,
\* before or after a failing one, has its row stored (the row of the last
\* such item for a pair), rows of pairs no such item names are left as they
\* were, and created + failed = total = number of items submitted.
C17_BatchIsolatesFailures ==
    [][ (opCount' = opCount + 1 /\ lastOp'.op = "create_relations_batch")
        => LET relations == lastOp'.relations
               failing == lastOp'.failing
           IN  /\ lastOp'.total = Len(relations)
               /\ lastOp'.failed = Cardinality(failing)
               /\ lastOp'.created = Cardinality(Attempted(relations, failing))
               /\ lastOp'.created + lastOp'.failed = lastOp'.total
               /\ \A i \in Attempted(relations, failing) :
                     LastForPair(relations, failing, i)
                     => RowsOfPair(rows', relations[i].market_id_1, relations[i].market_id_2)
                          = {[market_id_1 |-> Min2(relations[i].market_id_1, relations[i].market_id_2),
                              market_id_2 |-> Max2(relations[i].market_id_1, relations[i].market_id_2),
                              similarity |-> relations[i].similarity,
                              correlation |-> relations[i].correlation,
                              pressure |-> relations[i].pressure]}
               /\ \A r \in rows :
                     (\A i \in Attempted(relations, failing) :
                         {relations[i].market_id_1, relations[i].market_id_2} # {r.market_id_1, r.market_id_2})
                     => r \in rows'
               /\ \A r \in rows' :
                     (\A i \in Attempted(relations, failing) :
                         {relations[i].market_id_1, relations[i].market_id_2} # {r.market_id_1, r.market_id_2})
                     => r \in rows ]_vars

\* C17 witness: the second of three items failed; the first and the third,
\* which name different pairs, are both stored.
C17_Witness ==
    /\ lastOp.op = "create_relations_batch"
    /\ Len(lastOp.relations) = 3
    /\ lastOp.failing = {2}
    /\ lastOp.created = 2
    /\ lastOp.failed = 1
    /\ {lastOp.relations[1].market_id_1, lastOp.relations[1].market_id_2} # {lastOp.relations[3].market_id_1, lastOp.relations[3].market_id_2}
    /\ \A i \in {1, 3} : RowsOfPair(rows, lastOp.relations[i].market_id_1, lastOp.relations[i].market_id_2) # {}

\* ------------------------------------------------------------------------
\* RelationService: relation discovery
\* ------------------------------------------------------------------------

\* limit=1000 of the get_related_markets calls that build the exclusion set,
\* scaled down with the store: 2 rows here stand for 1000 rows there.
ExistingLimit == 2

\* The thresholds create_relations.py passes on.
SimilarityThresholds == {7}
CorrelationThresholds == {0, 7}

\* What vector_service.find_similar_to_market may answer for a market:
\* up to two <<market id, similarity>> results.
SimilarEntries ==
    {<<1, 9>>, <<2, 9>>, <<2, 8>>, <<3, 8>>, <<4, 9>>, <<3, 6>>}
SimilarLists == UNION {[1..k -> SimilarEntries] : k \in 0..2}

\* The vector indexes explored: any answer for market 1, a few for market 2,
\* one for market 3.
VectorIndexes ==
    {[m \in {1, 2, 3} |-> CASE m = 1 -> l1 [] m = 2 -> l2 [] OTHER -> <<<<1, 9>>>>] :
        l1 \in SimilarLists,
        l2 \in {<<>>, <<<<1, 9>>>>, <<<<3, 8>>, <<1, 9>>>>}}

\* Rows that earlier create_relation calls stored.
SeedRows ==
    {RelationData(2, 1, 8, 9, 360), RelationData(1, 3, 9, 4, 36),
     RelationData(4, 1, 9, 4, 36)}
SeedStores ==
    {{}, {RelationData(2, 1, 8, 9, 360)},
     {RelationData(2, 1, 8, 9, 360), RelationData(1, 3, 9, 4, 36)}, SeedRows}

\* related_id in get_related_markets
RelatedId(relation, market_id) ==
    IF relation.market_id_1 = market_id
    THEN relation.market_id_2
    ELSE relation.market_id_1

\* The responses the store may give the query of get_related_markets: of the
\* rows that touch market_id with similarity >= min_similarity, the limit
\* rows of highest similarity; the store breaks ties as it likes.
RelatedResponses(table, market_id, limit, min_similarity) ==
    LET matching == {r \in Touching(table, market_id) :
                        r.similarity >= min_similarity}
        n == Min2(limit, Cardinality(matching))
    IN  {response \in SUBSET matching :
            /\ Cardinality(response) = n
            /\ \A r \in response, q \in matching \ response :
                  r.similarity >= q.similarity}

\* existing_market_ids = {mid for mid, _, _, _ in existing_relations}
ExistingMarketIds(response, market_id) ==
    {RelatedId(r, market_id) : r \in response}

\* Mutant: the answer of the vector service is passed on unfiltered.
find_similar_markets_unfiltered(answer, similarity_threshold, raises) == IF raises THEN <<>> ELSE answer

\* find_similar_markets_for_relation: the answer of the vector service
\* filtered by the threshold, or [] when the vector service raises.
find_similar_markets_for_relation(answer, similarity_threshold, raises) ==
    IF raises
    THEN <<>>
    ELSE SelectSeq(answer, LAMBDA e : e[2] >= similarity_threshold)

\* What the loop of create_relations_for_market does with one similar market.
Outcome(market_id, entry, existing_market_ids, correlation_threshold) ==
    IF entry[1] \in existing_market_ids THEN "exists"
    ELSE IF entry[1] = market_id THEN "self"
    ELSE IF ~InStore(entry[1]) THEN "missing"
    ELSE IF calculate_correlation(MarketById(market_id), MarketById(entry[1]))
              < correlation_threshold THEN "low_correlation"
    ELSE "queued"

\* MarketRelationCreate(...) appended to relations_to_create
RelationToCreate(market_id, entry) ==
    LET market == MarketById(market_id)
        similar_market == MarketById(entry[1])
        correlation == calculate_correlation(market, similar_market)
    IN  [market_id_1 |-> market_id, market_id_2 |-> entry[1],
         similarity |-> entry[2], correlation |-> correlation,
         pressure |-> calculate_pressure(entry[2], correlation,
                                         market.volume, similar_market.volume)]

\* create_relations_for_market once the market was found and the exclusion
\* set was read: the loop over similar_markets and the batch.
DiscoveryLoop(table, market_id, similar_markets, existing_market_ids, correlation_threshold, failing) ==
    LET outcomes == [i \in DOMAIN similar_markets |->
                        Outcome(market_id, similar_markets[i],
                                existing_market_ids, correlation_threshold)]
        positions == SelectSeq([i \in DOMAIN similar_markets |-> i],
                               LAMBDA i : outcomes[i] = "queued")
        relations_to_create == [j \in DOMAIN positions |->
                                   RelationToCreate(market_id,
                                                    similar_markets[positions[j]])]
        loop_skipped == Cardinality({i \in DOMAIN similar_markets :
                            outcomes[i] \in {"exists", "low_correlation"}})
        result == create_relations_batch(table, relations_to_create, failing)
    IN  [table |-> result.table,
         created |-> result.created,
         skipped |-> loop_skipped + result.failed,
         similar_markets |-> similar_markets,
         existing_market_ids |-> existing_market_ids,
         outcomes |-> outcomes,
         relations_to_create |-> relations_to_create]

\* The result of a create_relations_for_market call that ends early.
NothingDone(table) ==
    [table |-> table, created |-> 0, skipped |-> 0, similar_markets |-> <<>>,
     existing_market_ids |-> {}, outcomes |-> <<>>,
     relations_to_create |-> <<>>]

\* The outcomes of create_relations_for_market.  fault is "store" when a read
\* of the store raises, "vector" when the vector service raises, else "none";
\* failing is the set of queued items whose upsert raises.
create_relations_for_market(table, index, market_id, similarity_threshold, correlation_threshold, fault, failing) ==
    IF fault = "store" \/ ~InStore(market_id)
    THEN {NothingDone(table)}
    ELSE LET similar_markets ==
                 find_similar_markets_for_relation(index[market_id],
                     similarity_threshold, fault = "vector")
         IN  IF similar_markets = <<>>
             THEN {NothingDone(table)}
             ELSE {DiscoveryLoop(table, market_id, similar_markets,
                                 ExistingMarketIds(response, market_id),
                                 correlation_threshold, failing) :
                     response \in RelatedResponses(table, market_id,
                                                   ExistingLimit, 0)}

CreateRelationsForMarket(m, st, ct, fault, failing) ==
    /\ Called
    /\ \E run \in create_relations_for_market(rows, similar, m, st, ct,
                                              fault, failing) :
          /\ failing \subseteq DOMAIN run.relations_to_create
          /\ rows' = run.table
          /\ lastOp' = [op |-> "create_relations_for_market", market_id |-> m,
                        similarity_threshold |-> st,
                        correlation_threshold |-> ct, fault |-> fault,
                        failing |-> failing,
                        similar_markets |-> run.similar_markets,
                        existing_market_ids |-> run.existing_market_ids,
                        outcomes |-> run.outcomes,
                        relations_to_create |-> run.relations_to_create,
                        created |-> run.created, skipped |-> run.skipped]
    /\ UNCHANGED <<rlVars, evVars, volVars, ioVars, similar>>

InitDiscovery ==
    /\ LimiterUnused
    /\ EngineUnused
    /\ VolatilityUnused
    /\ NothingInFlight
    /\ rows \in SeedStores
    /\ similar \in VectorIndexes
    /\ lastOp = [op |-> "none"]
    /\ opCount = 0

NextDiscovery ==
    \E m \in MarketIds, st \in SimilarityThresholds,
       ct \in CorrelationThresholds, fault \in {"none", "store", "vector"},
       failing \in SUBSET (1..2) :
          CreateRelationsForMarket(m, st, ct, fault, failing)

SpecDiscovery == InitDiscovery /\ [][NextDiscovery]_vars

\* A step that is a create_relations_for_market call in which no read raised.
DiscoveryStep ==
    /\ opCount' = opCount + 1
    /\ lastOp'.op = "create_relations_for_market"
    /\ lastOp'.fault = "none"

\* C5: create_relations_for_market(m, ...) never recomputes a relation that
\* exists: for every candidate whose row with m is stored when the call
\* starts, however many relations m has, no upsert is issued for the pair,
\* the stored row stays as it was, and skipped is incremented by one.
C5_ExistingNeverRecomputed ==
    [][ DiscoveryStep
        => \A i \in DOMAIN lastOp'.similar_markets :
              LET c == lastOp'.similar_markets[i][1]
              IN  RowsOfPair(rows, lastOp'.market_id, c) # {}
                  => /\ lastOp'.outcomes[i] = "exists"
                     /\ \A j \in DOMAIN lastOp'.relations_to_create :
                           lastOp'.relations_to_create[j].market_id_2 # c
                     /\ RowsOfPair(rows', lastOp'.market_id, c)
                           = RowsOfPair(rows, lastOp'.market_id, c) ]_vars

\* C6: when create_relations_for_market runs twice in succession for the same
\* market with the same thresholds, against the same vector index and market
\* data and with every upsert succeeding, the second run returns created = 0
\* and leaves the table as the first run left it.
C6_SecondRunCreatesNothing ==
    [][ (/\ DiscoveryStep
         /\ lastOp.op = "create_relations_for_market"
         /\ lastOp.fault = "none"
         /\ lastOp.market_id = lastOp'.market_id
         /\ lastOp.similarity_threshold = lastOp'.similarity_threshold
         /\ lastOp.correlation_threshold = lastOp'.correlation_threshold
         /\ lastOp.failing = {}
         /\ lastOp'.failing = {})
        => (lastOp'.created = 0 /\ rows' = rows) ]_vars

\* A step that is a create_relations_for_market call, whatever raised in it.
DiscoveryCall ==
    /\ opCount' = opCount + 1
    /\ lastOp'.op = "create_relations_for_market"

\* C21: every relation persisted by create_relations_for_market(m, st, ct)
\* joins m with a different market and has similarity >= st and
\* correlation >= ct; a candidate whose computed correlation is below ct
\* persists nothing (no upsert is queued for it) and adds exactly one to
\* skipped, which counts the candidates already related, those below ct and
\* the upserts that failed.
C21_PersistedMeetThresholds ==
    [][ DiscoveryCall
        => /\ \A r \in rows' \ rows :
                 /\ r.market_id_1 # r.market_id_2
                 /\ lastOp'.market_id \in {r.market_id_1, r.market_id_2}
                 /\ r.similarity >= lastOp'.similarity_threshold
                 /\ r.correlation >= lastOp'.correlation_threshold
           /\ \A j \in DOMAIN lastOp'.relations_to_create :
                 LET c == lastOp'.relations_to_create[j]
                 IN  /\ c.market_id_1 = lastOp'.market_id
                     /\ c.market_id_2 # lastOp'.market_id
                     /\ c.similarity >= lastOp'.similarity_threshold
                     /\ c.correlation >= lastOp'.correlation_threshold
           /\ \A i \in DOMAIN lastOp'.outcomes :
                 lastOp'.outcomes[i] = "low_correlation"
                 => /\ calculate_correlation(MarketById(lastOp'.market_id), MarketById(lastOp'.similar_markets[i][1])) < lastOp'.correlation_threshold
                    /\ \A j \in DOMAIN lastOp'.relations_to_create :
                          lastOp'.relations_to_create[j].market_id_2 # lastOp'.similar_markets[i][1]
                    /\ RowsOfPair(rows', lastOp'.market_id, lastOp'.similar_markets[i][1])
                          = RowsOfPair(rows, lastOp'.market_id, lastOp'.similar_markets[i][1])
           /\ lastOp'.skipped =
                 Cardinality({i \in DOMAIN lastOp'.outcomes : lastOp'.outcomes[i] = "exists"})
                 + Cardinality({i \in DOMAIN lastOp'.outcomes : lastOp'.outcomes[i] = "low_correlation"})
                 + Cardinality(lastOp'.failing \cap DOMAIN lastOp'.relations_to_create) ]_vars

\* C21 witness: one call stored a relation for one candidate and dropped
\* another for its correlation.
C21_Witness ==
    /\ lastOp.op = "create_relations_for_market"
    /\ lastOp.created = 1
    /\ lastOp.skipped = 1
    /\ lastOp.correlation_threshold = 7
    /\ \E i \in DOMAIN lastOp.outcomes : lastOp.outcomes[i] = "low_correlation"
    /\ \E i \in DOMAIN lastOp.outcomes : lastOp.outcomes[i] = "queued"
    /\ \E r \in rows : r.correlation >= 7 /\ lastOp.market_id \in {r.market_id_1, r.market_id_2}

\* ------------------------------------------------------------------------
\* RelationService: two create_relations_for_market coroutines in flight
\* ------------------------------------------------------------------------

\* The two markets discovery runs for.
MarketPairs == {{1, 2}, {1, 3}, {2, 3}}

\* The locals of a coroutine that has not run yet.
CoroStart ==
    [pc |-> "start", similar_markets |-> <<>>, outcomes |-> <<>>,
     relations_to_create |-> <<>>, next |-> 1, created |-> 0]

\* Both coroutines ended.
AllDone == coros.pc = "running" /\ \A m \in DOMAIN coros.tasks : coros.tasks[m].pc = "done"

\* A coroutine runs up to its await of get_related_markets: it reads the
\* market and asks the vector service.
CoroBegin(m) ==
    /\ coros.pc = "running"
    /\ coros.tasks[m].pc = "start"
    /\ LET similar_markets ==
               IF InStore(m)
               THEN find_similar_markets_for_relation(similar[m],
                        coros.similarity_threshold, FALSE)
               ELSE <<>>
       IN  coros' = [coros EXCEPT !.tasks[m] =
                        [@ EXCEPT !.pc = IF similar_markets = <<>>
                                         THEN "done" ELSE "found",
                                  !.similar_markets = similar_markets]]
    /\ UNCHANGED <<rlVars, evVars, relVars, volVars, fetch>>

\* The store answers get_related_markets; the coroutine runs its loop over
\* similar_markets up to the first await inside create_relations_batch.
CoroReadExisting(m) ==
    /\ coros.pc = "running"
    /\ coros.tasks[m].pc = "found"
    /\ \E response \in RelatedResponses(rows, m, ExistingLimit, 0) :
          LET loop == DiscoveryLoop(rows, m, coros.tasks[m].similar_markets,
                                    ExistingMarketIds(response, m),
                                    coros.correlation_threshold, {})
          IN  coros' = [coros EXCEPT !.tasks[m] =
                           [@ EXCEPT !.pc = IF loop.relations_to_create = <<>>
                                            THEN "done" ELSE "queued",
                                     !.outcomes = loop.outcomes,
                                     !.relations_to_create = loop.relations_to_create]]
    /\ UNCHANGED <<rlVars, evVars, relVars, volVars, fetch>>

\* One create_relation of the batch: the upsert of the next queued item.
CoroUpsert(m) ==
    /\ coros.pc = "running"
    /\ coros.tasks[m].pc = "queued"
    /\ LET task == coros.tasks[m]
           relation == task.relations_to_create[task.next]
       IN  /\ rows' = create_relation(rows, relation.market_id_1,
                                      relation.market_id_2, relation.similarity,
                                      relation.correlation, relation.pressure)
           /\ coros' = [coros EXCEPT !.tasks[m] =
                           [@ EXCEPT !.pc = IF task.next = Len(task.relations_to_create)
                                            THEN "done" ELSE "queued",
                                     !.next = @ + 1,
                                     !.created = @ + 1]]
    /\ UNCHANGED <<rlVars, evVars, volVars, similar, lastOp, opCount, fetch>>

InitConcurrent ==
    /\ LimiterUnused
    /\ EngineUnused
    /\ VolatilityUnused
    /\ rows \in SeedStores
    /\ similar \in VectorIndexes
    /\ lastOp = [op |-> "none"]
    /\ opCount = 0
    /\ fetch = [pc |-> "none"]
    /\ coros \in {[pc |-> "running", before |-> rows,
                   similarity_threshold |-> st, correlation_threshold |-> ct,
                   tasks |-> [m \in pair |-> CoroStart]] :
                     pair \in MarketPairs, st \in SimilarityThresholds,
                     ct \in CorrelationThresholds}

NextConcurrent ==
    \/ \E m \in DOMAIN coros.tasks : CoroBegin(m)
    \/ \E m \in DOMAIN coros.tasks : CoroReadExisting(m)
    \/ \E m \in DOMAIN coros.tasks : CoroUpsert(m)

SpecConcurrent == InitConcurrent /\ [][NextConcurrent]_vars

\* The canonical keys of the rows of a table.
PairKeys(table) == {<<r.market_id_1, r.market_id_2>> : r \in table}

\* The pairs whose candidate passes every filter of discovery for market m,
\* whatever the store holds.
QualifyingKeys(m, similarity_threshold, correlation_threshold) ==
    LET similar_markets == find_similar_markets_for_relation(similar[m],
                               similarity_threshold, FALSE)
    IN  {<<Min2(m, similar_markets[i][1]), Max2(m, similar_markets[i][1])>> :
            i \in {j \in DOMAIN similar_markets :
                      Outcome(m, similar_markets[j], {}, correlation_threshold)
                          = "queued"}}

\* C25: relation discovery for two different markets is order-independent:
\* in every order and every interleaving of the two create_relations_for_market
\* coroutines at their awaits, once both ended the store holds the same set
\* of canonical pair keys (the keys it held before and the keys of the
\* candidates that pass the filters of either market), and at every moment
\* it holds at most one row per unordered pair, keyed (min, max).
C25_OrderIndependentKeys ==
    /\ coros.pc = "running"
       => /\ \A r \in rows : r.market_id_1 < r.market_id_2
          /\ \A a, b \in MarketIds : Cardinality(RowsOfPair(rows, a, b)) <= 1
    /\ AllDone
       => PairKeys(rows) = PairKeys(coros.before) \cup
             UNION {QualifyingKeys(m, coros.similarity_threshold,
                                   coros.correlation_threshold) :
                       m \in DOMAIN coros.tasks}

\* C25 witness: both coroutines read the store before either wrote, both
\* queued the pair of the two markets, with different similarities, both
\* upserted it, and the store holds one row for it.
C25_Witness ==
    /\ AllDone
    /\ \E a, b \in DOMAIN coros.tasks :
          /\ a < b
          /\ coros.tasks[a].created >= 1
          /\ coros.tasks[b].created >= 1
          /\ \E i \in DOMAIN coros.tasks[a].relations_to_create,
                j \in DOMAIN coros.tasks[b].relations_to_create :
                /\ coros.tasks[a].relations_to_create[i].market_id_2 = b
                /\ coros.tasks[b].relations_to_create[j].market_id_2 = a
                /\ coros.tasks[a].relations_to_create[i].similarity
                      # coros.tasks[b].relations_to_create[j].similarity
          /\ Cardinality(RowsOfPair(rows, a, b)) = 1
          /\ RowsOfPair(coros.before, a, b) = {}

\* ------------------------------------------------------------------------
\* RelationService: estimate_relations_count
\* ------------------------------------------------------------------------

\* sample_size is None
NoSample == 0 - 1

\* potential_relations of one market
PotentialRelations(market_id, similar_markets, existing_market_ids, correlation_threshold) ==
    Cardinality({i \in DOMAIN similar_markets :
        /\ similar_markets[i][1] \notin existing_market_ids
        /\ similar_markets[i][1] # market_id
        /\ InStore(similar_markets[i][1])
        /\ calculate_correlation(MarketById(market_id),
                                 MarketById(similar_markets[i][1]))
              >= correlation_threshold})

\* The loop over markets_to_sample from market i on; erring is the set of
\* markets for which a collaborator raises.  Yields the tallies the loop may
\* end with.
RECURSIVE EstimateFrom(_, _, _, _, _, _, _, _, _)
EstimateFrom(table, index, markets_to_sample, i, similarity_threshold, correlation_threshold, erring, total_relations, markets_processed) ==
    IF i > Len(markets_to_sample)
    THEN {[total_relations |-> total_relations,
           markets_processed |-> markets_processed]}
    ELSE LET market_id == markets_to_sample[i]
             skip == EstimateFrom(table, index, markets_to_sample, i + 1,
                         similarity_threshold, correlation_threshold, erring,
                         total_relations, markets_processed)
         IN  IF market_id \in erring \/ ~InStore(market_id)
             THEN skip
             ELSE LET similar_markets ==
                          find_similar_markets_for_relation(index[market_id],
                              similarity_threshold, FALSE)
                  IN  IF similar_markets = <<>>
                      THEN skip
                      ELSE UNION {
                          EstimateFrom(table, index, markets_to_sample, i + 1,
                              similarity_threshold, correlation_threshold,
                              erring,
                              total_relations
                                + PotentialRelations(market_id, similar_markets,
                                      ExistingMarketIds(response, market_id),
                                      correlation_threshold),
                              markets_processed + 1) :
                          response \in RelatedResponses(table, market_id,
                                                        ExistingLimit, 0)}

\* if sample_size and sample_size < len(market_ids)
SamplingApplies(market_ids, sample_size) ==
    /\ sample_size # NoSample
    /\ sample_size # 0
    /\ sample_size < Len(market_ids)

\* The position sets random.sample may draw; every position when no sample
\* is drawn.
Samples(market_ids, sample_size) ==
    IF SamplingApplies(market_ids, sample_size)
    THEN {picked \in SUBSET DOMAIN market_ids :
             Cardinality(picked) = Min2(sample_size, Len(market_ids))}
    ELSE {DOMAIN market_ids}

\* Mutant: the estimate runs the persisting pipeline for the first market it
\* examines.
estimate_relations_persisting(table, index, market_ids, similarity_threshold, correlation_threshold, sample_size, picked, erring) ==
    LET positions == SelectSeq([i \in DOMAIN market_ids |-> i],
                               LAMBDA i : i \in picked)
        markets_to_sample == [j \in DOMAIN positions |-> market_ids[positions[j]]]
        tallies == EstimateFrom(table, index, markets_to_sample, 1,
                       similarity_threshold, correlation_threshold, erring, 0, 0)
        runs == IF markets_to_sample = <<>>
                THEN {NothingDone(table)}
                ELSE create_relations_for_market(table, index, markets_to_sample[1],
                         similarity_threshold, correlation_threshold, "none", {})
    IN  {[estimated_total |->
              IF t.markets_processed > 0
              THEN (t.total_relations * Len(market_ids)) \div t.markets_processed
              ELSE 0,
          sampled_markets |-> t.markets_processed,
          total_markets |-> Len(market_ids),
          sample_relations |-> t.total_relations,
          is_sampled |-> sample_size # NoSample /\ sample_size < Len(market_ids),
          markets_to_sample |-> markets_to_sample,
          table |-> run.table] : t \in tallies, run \in runs}

\* The dictionaries estimate_relations_count may return (relations_per_market
\* left out) with the table as the call leaves it: every store call it makes
\* is a read.  picked is the set of positions of market_ids examined, which
\* are visited here in list order.
estimate_relations_count(table, index, market_ids, similarity_threshold, correlation_threshold, sample_size, picked, erring) ==
    LET positions == SelectSeq([i \in DOMAIN market_ids |-> i],
                               LAMBDA i : i \in picked)
        markets_to_sample == [j \in DOMAIN positions |-> market_ids[positions[j]]]
        tallies == EstimateFrom(table, index, markets_to_sample, 1,
                       similarity_threshold, correlation_threshold, erring, 0, 0)
    IN  {[estimated_total |->
              IF t.markets_processed > 0
              THEN (t.total_relations * Len(market_ids)) \div t.markets_processed
              ELSE 0,
          sampled_markets |-> t.markets_processed,
          total_markets |-> Len(market_ids),
          sample_relations |-> t.total_relations,
          is_sampled |-> sample_size # NoSample /\ sample_size < Len(market_ids),
          markets_to_sample |-> markets_to_sample,
          table |-> table] : t \in tallies}

\* The market id lists estimate_relations_count is called with.
IdLists ==
    {<<>>, <<1>>, <<4>>, <<1, 2>>, <<2, 1>>, <<1, 4>>, <<1, 2, 3>>, <<3, 1, 2>>}

EstimateRelationsCount(market_ids, st, ct, sample_size, picked, erring) ==
    /\ Called
    /\ \E estimate \in estimate_relations_count(rows, similar, market_ids, st,
                                                ct, sample_size, picked, erring) :
          /\ rows' = estimate.table
          /\ lastOp' = [op |-> "estimate_relations_count",
                        market_ids |-> market_ids, sample_size |-> sample_size,
                        similarity_threshold |-> st, correlation_threshold |-> ct,
                        erring |-> erring, estimate |-> estimate]
    /\ UNCHANGED <<rlVars, evVars, volVars, ioVars, similar>>

\* The vector indexes the estimate and the batch driver are explored with.
SmallIndexes ==
    {[m \in {1, 2, 3} |-> CASE m = 1 -> l1 [] m = 2 -> l2 [] OTHER -> <<<<1, 9>>>>] :
        l1 \in {<<>>, <<<<2, 9>>>>, <<<<2, 8>>, <<3, 8>>>>, <<<<1, 9>>, <<4, 9>>>>},
        l2 \in {<<>>, <<<<1, 9>>>>}}

InitEstimate ==
    /\ LimiterUnused
    /\ EngineUnused
    /\ VolatilityUnused
    /\ NothingInFlight
    /\ rows \in SeedStores
    /\ similar \in SmallIndexes
    /\ lastOp = [op |-> "none"]
    /\ opCount = 0

NextEstimate ==
    \E market_ids \in IdLists, st \in SimilarityThresholds,
       ct \in CorrelationThresholds :
       \E sample_size \in {NoSample} \cup (0..(Len(market_ids) + 1)),
          erring \in {{}, {1}} :
          \E picked \in Samples(market_ids, sample_size) :
             EstimateRelationsCount(market_ids, st, ct, sample_size, picked, erring)

SpecEstimate == InitEstimate /\ [][NextEstimate]_vars

\* C22: estimate_relations_count is read-only: whatever its input and
\* whichever market's reads raise, the relation store after the call is the
\* store before it.
C22_EstimateReadOnly ==
    [][ (opCount' = opCount + 1 /\ lastOp'.op = "estimate_relations_count")
        => rows' = rows ]_vars

\* C22 witness: an estimate that counted relations it would create, with one
\* market's reads raising, over a store that holds rows.
C22_Witness ==
    /\ lastOp.op = "estimate_relations_count"
    /\ lastOp.erring # {}
    /\ lastOp.estimate.sample_relations > 0
    /\ rows # {}

\* C8: estimate_relations_count reports whether sampling was applied: for
\* every sample_size (absent, 0, below, equal to or above the market count)
\* is_sampled is true exactly when the markets examined were a drawn sample
\* smaller than the market list, and a drawn sample is sample_size distinct
\* ids of market_ids.
C8_IsSampledIffSampleDrawn ==
    lastOp.op = "estimate_relations_count"
    => LET examined == lastOp.estimate.markets_to_sample
           drawn == SamplingApplies(lastOp.market_ids, lastOp.sample_size)
       IN  /\ lastOp.estimate.is_sampled
                = (drawn /\ Len(examined) < Len(lastOp.market_ids))
           /\ drawn
                => /\ Len(examined) = lastOp.sample_size
                   /\ \A i, j \in DOMAIN examined :
                         i # j => examined[i] # examined[j]
                   /\ \A i \in DOMAIN examined :
                         \E k \in DOMAIN lastOp.market_ids :
                            lastOp.market_ids[k] = examined[i]

\* ------------------------------------------------------------------------
\* create_relations.py: create_all_relations
\* ------------------------------------------------------------------------

\* The loop over markets_to_process from market i on (batches only group the
\* progress output); erring is the set of markets for which a read of the
\* store raises.  Yields the tables and totals the loop may end with.
RECURSIVE PassFrom(_, _, _, _, _, _, _, _, _)
PassFrom(table, index, market_ids, i, similarity_threshold, correlation_threshold, erring, total_created, total_skipped) ==
    IF i > Len(market_ids)
    THEN {[table |-> table, total_created |-> total_created,
           total_skipped |-> total_skipped]}
    ELSE UNION {
        PassFrom(run.table, index, market_ids, i + 1, similarity_threshold,
                 correlation_threshold, erring, total_created + run.created,
                 total_skipped + run.skipped) :
        run \in create_relations_for_market(table, index, market_ids[i],
                    similarity_threshold, correlation_threshold,
                    IF market_ids[i] \in erring THEN "store" ELSE "none", {})}

\* The markets with embeddings create_all_relations finds, in store order.
MarketsToProcess ==
    {<<1>>, <<2>>, <<1, 2>>, <<2, 1>>, <<1, 3>>, <<2, 3>>, <<1, 2, 3>>,
     <<3, 2, 1>>}

CreateAllRelations(market_ids, st, ct, confirmed, erring) ==
    /\ Called
    /\ LET sample_size == Min2(100, Max2(10, Len(market_ids) \div 10))
       IN  \E picked \in Samples(market_ids, sample_size) :
           \E estimate \in estimate_relations_count(rows, similar, market_ids,
                               st, ct, sample_size, picked, erring) :
           \E pass \in IF confirmed
                       THEN PassFrom(estimate.table, similar, market_ids, 1,
                                     st, ct, erring, 0, 0)
                       ELSE {[table |-> estimate.table, total_created |-> 0,
                              total_skipped |-> 0]} :
              /\ rows' = pass.table
              /\ lastOp' = [op |-> "create_all_relations",
                            market_ids |-> market_ids,
                            similarity_threshold |-> st,
                            correlation_threshold |-> ct,
                            sample_size |-> sample_size,
                            confirmed |-> confirmed, erring |-> erring,
                            estimate |-> estimate,
                            total_created |-> pass.total_created,
                            total_skipped |-> pass.total_skipped]
    /\ UNCHANGED <<rlVars, evVars, volVars, ioVars, similar>>

NextDriver ==
    \E market_ids \in MarketsToProcess, st \in SimilarityThresholds,
       ct \in CorrelationThresholds, confirmed \in BOOLEAN :
       \E erring \in {{}, {market_ids[1]}} :
          CreateAllRelations(market_ids, st, ct, confirmed, erring)

SpecDriver == InitEstimate /\ [][NextDriver]_vars

\* C7: when estimate_relations_count is called with sample_size >= the number
\* of market ids, is_sampled is false and estimated_total equals the number
\* of relations the full persisting pass over the same market ids, with the
\* same thresholds and the same answers of the store and the vector service,
\* creates.
C7_EstimateEqualsFullPass ==
    (/\ lastOp.op = "create_all_relations"
     /\ lastOp.confirmed
     /\ lastOp.erring = {}
     /\ lastOp.sample_size >= Len(lastOp.market_ids))
    => /\ ~lastOp.estimate.is_sampled
       /\ lastOp.estimate.estimated_total = lastOp.total_created

(***************************************************************************)
(* PolymarketVolatilityCalculator (polymarket_api_enhanced.py).            *)
(*                                                                         *)
(* A market is a dict; the value found under a key is one of               *)
(*   [kind |-> "none"]         the key is missing (dict.get gives None),   *)
(*   [kind |-> "null"]         the key holds None,                         *)
(*   [kind |-> "num", v |-> n] a number (or a string float() accepts),     *)
(*   [kind |-> "str"]          a non-empty string float() rejects,         *)
(*   [kind |-> "nan"]          float("nan"), or the string "nan".          *)
(* Price changes are in thousandths, scores in ten-thousandths (the code   *)
(* rounds every score to 4 places).                                        *)
(***************************************************************************)
Missing == [kind |-> "none"]

Null == [kind |-> "null"]

Number(n) == [kind |-> "num", v |-> n]

Garbage == [kind |-> "str"]

NotANumber == [kind |-> "nan"]

\* Python `x is None`.
IsNone(x) == x.kind \in {"none", "null"}

\* A list, as outcomePrices holds one.
ListOf(items) == [kind |-> "list", items |-> items]

\* Python truth value: None, 0 and the empty list are false; a non-empty
\* string, nan and a non-empty list are true.
Truthy(x) == IF x.kind = "num" THEN x.v # 0 ELSE IF x.kind = "list" THEN x.items # <<>> ELSE ~IsNone(x)

\* Python `a or b`.
Or(a, b) == IF Truthy(a) THEN a ELSE b

\* 1.0 as a score.
ScoreOne == 10000

\* sqrt(1), sqrt(7), sqrt(30) in ten-thousandths.
Sqrt1 == 10000

Sqrt7 == 26458

Sqrt30 == 54772

\* n / d rounded to the nearest integer (n >= 0, d > 0).
RoundDiv(n, d) == (2 * n + d) \div (2 * d)

\* round(min(abs(float(change)) / root / 0.3, 1.0), 4); min() keeps a nan.
PriceChangeScore(change, root) == IF change.kind = "nan" THEN NotANumber ELSE Number(Min2(ScoreOne, RoundDiv(Abs(change.v) * 1000000, 3 * root)))

\* One priority level: float() of a rejected string raises, and the except
\* clause turns that into (None, "error").
PriceChangeResult(change, root, method, period) == IF change.kind = "str" THEN [score |-> Missing, method |-> "error", period |-> "none"] ELSE [score |-> PriceChangeScore(change, root), method |-> method, period |-> period]

calculate_volatility_from_price_changes(market) ==
    LET one_day_change == Or(market.oneDayPriceChange, market.one_day_price_change)
        one_week_change == Or(market.oneWeekPriceChange, market.one_week_price_change)
        one_month_change == Or(market.oneMonthPriceChange, market.one_month_price_change)
    IN  IF ~IsNone(one_day_change)
            THEN PriceChangeResult(one_day_change, Sqrt1, "price_change_24h", "24h")
        ELSE IF ~IsNone(one_week_change)
            THEN PriceChangeResult(one_week_change, Sqrt7, "price_change_7d_scaled", "7d")
        ELSE IF ~IsNone(one_month_change)
            THEN PriceChangeResult(one_month_change, Sqrt30, "price_change_30d_scaled", "30d")
        ELSE [score |-> Missing, method |-> "no_price_changes", period |-> "none"]

\* The values tried under the camelCase keys and under their snake_case
\* aliases.
ChangeValues == {Missing, Number(0), Number(0 - 60), Number(300), Garbage, NotANumber}

AliasValues == {Missing, Number(0), Number(1000)}

PriceChangeMarkets ==
    [oneDayPriceChange : ChangeValues, one_day_price_change : AliasValues,
     oneWeekPriceChange : ChangeValues, one_week_price_change : AliasValues,
     oneMonthPriceChange : ChangeValues, one_month_price_change : AliasValues]

\* One call of calculate_volatility_from_price_changes.
CalculateVolatilityFromPriceChanges(market) ==
    /\ vol.op = "none"
    /\ vol' = [op |-> "price_changes", market |-> market,
               result |-> calculate_volatility_from_price_changes(market)]
    /\ UNCHANGED <<rlVars, evVars, relVars, ioVars, mig>>

(***************************************************************************)
(* calculate_proxy_volatility.  Outcome prices are in hundredths, volumes  *)
(* in whole units, price_uncertainty and volume_factor in ten-thousandths, *)
(* time_factor in tenths.  An end date is                                  *)
(*   [kind |-> "iso", aware |-> b, days |-> d]  an ISO string, with a UTC  *)
(*       offset or "Z" when b, that lies d whole days ahead, or            *)
(*   [kind |-> "epoch", days |-> d]             epoch milliseconds.        *)
(***************************************************************************)
IsoDate(aware, days) == [kind |-> "iso", aware |-> aware, days |-> days]

EpochMs(days) == [kind |-> "epoch", days |-> days]

RECURSIVE SumOf(_)
SumOf(s) == IF s = <<>> THEN 0 ELSE Head(s) + SumOf(Tail(s))

\* entropy / max_entropy of the normalised prices, for the price lists
\* tried: -sum(p log p) / log(3) of (0.2, 0.3, 0.5) is 0.9372.
EntropyRatio(prices) == IF SumOf(prices) <= 0 \/ Len(prices) = 1 THEN 0 ELSE CASE prices = <<20, 30, 50>> -> 9372

price_uncertainty(prices) == IF Len(prices) = 2 THEN Min2(prices[1], 100 - prices[1]) * 2 * 100 ELSE EntropyRatio(prices)

\* min(log10(volume + 1) / log10(10_000_000), 1.0), for the volumes tried:
\* log10(1001) / 7 is 0.4286.
volume_factor(volume) == IF volume <= 0 THEN 0 ELSE IF volume >= 9999999 THEN ScoreOne ELSE CASE volume = 1000 -> 4286

\* The default 0.5 stays when there is no end date, when it cannot be
\* parsed, and when it carries a UTC offset: subtracting the naive
\* datetime.utcnow() from an aware datetime raises TypeError, which the
\* inner `except: pass` swallows.
time_factor(end_date_str) ==
    IF ~Truthy(end_date_str) THEN 5
    ELSE IF end_date_str.kind = "str" THEN 5
    ELSE IF end_date_str.kind = "iso" /\ end_date_str.aware THEN 5
    ELSE IF end_date_str.days < 1 THEN 9
    ELSE IF end_date_str.days < 7 THEN 7
    ELSE IF end_date_str.days < 30 THEN 5
    ELSE 3

\* max(0.0, min(1.0, 0.5 * price_uncertainty + 0.3 * volume_factor +
\* 0.2 * time_factor)), rounded to 4 places.
ProxyScore(pu, vf, tf) == LET tenfold == 5 * pu + 3 * vf + 2 * (1000 * tf) IN IF tenfold <= 0 THEN 0 ELSE Min2(ScoreOne, RoundDiv(tenfold, 10))

calculate_proxy_volatility(market) ==
    LET outcome_prices == IF Truthy(market.outcomePrices) THEN market.outcomePrices ELSE market.outcome_prices
        end_date_str == Or(market.endDate, market.end_date)
        proxy_error == [score |-> Number(0), method |-> "proxy_error"]
    IN  IF market.volume.kind \in {"null", "str"} THEN proxy_error
        ELSE IF ~Truthy(outcome_prices) THEN [score |-> Number(0), method |-> "proxy_no_data"]
        ELSE IF outcome_prices.kind = "str" THEN proxy_error
        ELSE [score |-> Number(ProxyScore(price_uncertainty(outcome_prices.items),
                                          volume_factor(IF market.volume.kind = "none" THEN 0 ELSE market.volume.v),
                                          time_factor(end_date_str))),
              method |-> "proxy",
              time_factor |-> time_factor(end_date_str)]

PriceLists ==
    {Missing, Garbage, ListOf(<<>>), ListOf(<<50, 50>>), ListOf(<<90, 10>>),
     ListOf(<<150, 0 - 50>>), ListOf(<<100>>), ListOf(<<20, 30, 50>>),
     ListOf(<<0, 0, 0>>)}

ProxyMarkets ==
    [outcomePrices : PriceLists,
     outcome_prices : {Missing, ListOf(<<>>), ListOf(<<50, 50>>)},
     volume : {Missing, Null, Garbage, Number(0), Number(1000), Number(10000000)},
     endDate : {Missing, Garbage, IsoDate(TRUE, 0), IsoDate(FALSE, 0),
                IsoDate(FALSE, 3), IsoDate(FALSE, 10), IsoDate(FALSE, 40),
                EpochMs(3)},
     end_date : {Missing, IsoDate(FALSE, 3)}]

\* One call of calculate_proxy_volatility.
CalculateProxyVolatility(market) ==
    /\ vol.op = "none"
    /\ vol' = [op |-> "proxy", market |-> market,
               result |-> calculate_proxy_volatility(market)]
    /\ UNCHANGED <<rlVars, evVars, relVars, ioVars, mig>>

(***************************************************************************)
(* calculate_true_volatility_24h.  `responses` are the answers the CLOB    *)
(* endpoint gives to successive requests; an answer is                     *)
(*   [kind |-> "timeout"]                    httpx.TimeoutException,       *)
(*   [kind |-> "status", code |-> c]         raise_for_status() raises,    *)
(*   [kind |-> "history", history |-> h]     a body with that history.     *)
(* A history item is a price in hundredths under 'price', an item without  *)
(* that key, or something that is not a dict.                              *)
(***************************************************************************)
NoPriceKey == [kind |-> "nokey"]

NotADict == [kind |-> "bad"]

Timeout == [kind |-> "timeout"]

Status(code) == [kind |-> "status", code |-> code]

History(history) == [kind |-> "history", history |-> history]

\* log(price / 0.4) in ten-thousandths, for the positive prices tried.
Ln(price) == CASE price = 40 -> 0 [] price = 50 -> 2231 [] price = 60 -> 4055

RECURSIVE PricesOf(_)
\* [float(p['price']) for p in history if 'price' in p]
PricesOf(history) == IF history = <<>> THEN <<>> ELSE IF Head(history).kind = "num" THEN <<Head(history).v>> \o PricesOf(Tail(history)) ELSE PricesOf(Tail(history))

RECURSIVE LogReturnsFrom(_, _)
\* The log returns of the consecutive pairs from index i on; a pair with a
\* price that is not positive is skipped.
LogReturnsFrom(prices, i) == IF i > Len(prices) THEN <<>> ELSE (IF prices[i - 1] > 0 /\ prices[i] > 0 THEN <<Ln(prices[i]) - Ln(prices[i - 1])>> ELSE <<>>) \o LogReturnsFrom(prices, i + 1)

RECURSIVE SumOfSquares(_)
SumOfSquares(s) == IF s = <<>> THEN 0 ELSE Head(s) * Head(s) + SumOfSquares(Tail(s))

RECURSIVE IsqrtBetween(_, _, _)
\* The largest r in lo..hi with r * r <= n.
IsqrtBetween(n, lo, hi) == IF lo >= hi THEN lo ELSE LET mid == (lo + hi + 1) \div 2 IN IF mid * mid <= n THEN IsqrtBetween(n, mid, hi) ELSE IsqrtBetween(n, lo, mid - 1)

\* round(min(sqrt(variance) / 0.3, 1.0), 4), where variance is the
\* population variance: n * n * variance = n * sum(r * r) - sum(r) ** 2.
RealizedVolatility(log_returns) == LET n == Len(log_returns) IN Min2(ScoreOne, RoundDiv(10 * IsqrtBetween(n * SumOfSquares(log_returns) - SumOf(log_returns) * SumOf(log_returns), 0, 20000), 3 * n))

\* Mutant: every HTTP error is reported alike.
StatusLabelAlike(code) == "http_error"

\* except httpx.HTTPStatusError
StatusLabel(code) == IF code = 404 THEN "not_found" ELSE "http_error"

\* What the method makes of one answer.
HistoricalResult(answer) ==
    LET NoScore(method) == [score |-> Missing, method |-> method]
    IN  IF answer.kind = "timeout" THEN NoScore("error")
        ELSE IF answer.kind = "status" THEN NoScore(StatusLabel(answer.code))
        ELSE IF Len(answer.history) < 2 THEN NoScore("insufficient_data")
        ELSE IF \E i \in DOMAIN answer.history : answer.history[i].kind = "bad" THEN NoScore("error")
        ELSE IF Len(PricesOf(answer.history)) < 2 THEN NoScore("insufficient_data")
        ELSE IF LogReturnsFrom(PricesOf(answer.history), 2) = <<>> THEN NoScore("no_valid_returns")
        ELSE [score |-> Number(RealizedVolatility(LogReturnsFrom(PricesOf(answer.history), 2))),
              method |-> "price_history"]

\* Seconds slept before the second request of the mutant.
RetryBackoff == 5

\* Mutant: a timed-out request is repeated once after a backoff.
calculate_true_volatility_24h_retrying(responses) == IF responses[1].kind = "timeout" THEN [result |-> HistoricalResult(responses[2]), requests |-> 2, slept |-> RetryBackoff, raised |-> FALSE] ELSE [result |-> HistoricalResult(responses[1]), requests |-> 1, slept |-> 0, raised |-> FALSE]

\* One request (line 77) inside one try block: whatever happens, the
\* method returns after it.
calculate_true_volatility_24h(responses) == [result |-> HistoricalResult(responses[1]), requests |-> 1, slept |-> 0, raised |-> FALSE]

HistoryItems == {Number(40), Number(50), Number(60), Number(0), Number(0 - 50), NoPriceKey, NotADict}

MaxHistory == 3

Histories == UNION {[1..n -> HistoryItems] : n \in 0..MaxHistory}

FirstAnswers == {Timeout, Status(404), Status(500)} \cup {History(h) : h \in Histories}

SecondAnswers == {Timeout, Status(404), History(<<Number(50), Number(60), Number(40)>>)}

\* One call of calculate_true_volatility_24h; acquire() admits the call
\* and records it (RateLimiter.acquire, line 43).
CalculateTrueVolatility24h(responses) ==
    /\ vol.op = "none"
    /\ ~MustSleep(Evict(requests, clock, time_window), clock)
    /\ requests' = Append(Evict(requests, clock, time_window), clock)
    /\ vol' = [op |-> "historical", responses |-> responses] @@ calculate_true_volatility_24h(responses)
    /\ UNCHANGED <<clock, max_requests, time_window, pc, wakeAt, log, returned, callers, evVars, relVars, ioVars, mig>>

InitVolatility ==
    /\ LimiterUnused
    /\ EngineUnused
    /\ VolatilityUnused
    /\ NothingInFlight
    /\ StoreEmpty

NextVolatility ==
    \/ \E market \in PriceChangeMarkets : CalculateVolatilityFromPriceChanges(market)
    \/ \E market \in ProxyMarkets : CalculateProxyVolatility(market)
    \/ \E first \in FirstAnswers, second \in SecondAnswers : CalculateTrueVolatility24h(<<first, second>>)

SpecVolatility == InitVolatility /\ [][NextVolatility]_vars

\* A score is a number within [0,1].
ScoreInRange(score) == score.kind = "num" /\ 0 <= score.v /\ score.v <= ScoreOne

\* C13: for every input market each of the three volatility methods returns
\* a score that is absent or within [0,1], and the proxy method always
\* returns a score.
C13_ScoreAbsentOrInRange ==
    vol.op # "none" =>
        /\ vol.result.score = Missing \/ ScoreInRange(vol.result.score)
        /\ vol.op = "proxy" => ScoreInRange(vol.result.score)

\* C24: in the proxy method, for every market whose end date is present and
\* parseable, an ISO-8601 string with or without a timezone designator or a
\* millisecond epoch integer, the time factor is the step value of its days
\* until close (<1 -> 0.9, <7 -> 0.7, <30 -> 0.5, otherwise 0.3); the default
\* 0.5 is used only when the end date is missing or unparsable.
C24_TimeFactorSteps ==
    (vol.op = "proxy" /\ vol.result.method = "proxy")
    => LET end_date == Or(vol.market.endDate, vol.market.end_date)
       IN  IF end_date.kind \in {"iso", "epoch"}
           THEN vol.result.time_factor =
                   (IF end_date.days < 1 THEN 9
                    ELSE IF end_date.days < 7 THEN 7
                    ELSE IF end_date.days < 30 THEN 5
                    ELSE 3)
           ELSE vol.result.time_factor = 5

\* C14: the price-change method uses the 1-day field whenever it is present,
\* whatever its value (0 included), reporting price_change_24h; otherwise the
\* 7-day field scaled by 1/sqrt(7) when present; otherwise the 30-day field
\* scaled by 1/sqrt(30) when present; it reports "no_price_changes" without a
\* score only when none of the three is present.  Stated for markets whose
\* fields are missing or numbers.
C14_FieldPriority ==
    (/\ vol.op = "price_changes"
     /\ \A k \in DOMAIN vol.market : vol.market[k].kind \in {"none", "num"})
    => LET m == vol.market
           Present(a, b) == m[a].kind = "num" \/ m[b].kind = "num"
           From(a, b, root) == {PriceChangeScore(m[k], root) : k \in {x \in {a, b} : m[x].kind = "num"}}
           Uses(a, b, root, method) == vol.result.method = method /\ vol.result.score \in From(a, b, root)
       IN  IF Present("oneDayPriceChange", "one_day_price_change")
               THEN Uses("oneDayPriceChange", "one_day_price_change", Sqrt1, "price_change_24h")
           ELSE IF Present("oneWeekPriceChange", "one_week_price_change")
               THEN Uses("oneWeekPriceChange", "one_week_price_change", Sqrt7, "price_change_7d_scaled")
           ELSE IF Present("oneMonthPriceChange", "one_month_price_change")
               THEN Uses("oneMonthPriceChange", "one_month_price_change", Sqrt30, "price_change_30d_scaled")
           ELSE vol.result.method = "no_price_changes" /\ vol.result.score = Missing

OnlyNonPositivePrices(history) == \A i \in DOMAIN history : history[i].kind = "num" /\ history[i].v <= 0

\* C16 as stated: the historical-series method never raises; with fewer than
\* 2 samples, with only zero/negative prices, on HTTP 404, on any other HTTP
\* error and on any exception it returns an absent score whose method label
\* is one of "insufficient_data", "not_found", "http_error", "error".
C16_FailsSoftFourLabels ==
    vol.op = "historical" =>
        /\ ~vol.raised
        /\ vol.result.score = Missing =>
              vol.result.method \in {"insufficient_data", "not_found", "http_error", "error"}

\* C16 amended: the historical-series method never raises; it returns an
\* absent score labelled "insufficient_data" with fewer than 2 samples,
\* "no_valid_returns" with 2 or more samples whose prices are all zero or
\* negative, "not_found" on HTTP 404, "http_error" on any other HTTP error
\* and "error" on any other exception; an absent score carries one of these
\* five labels and a present score the label "price_history".
C16_FailsSoft ==
    vol.op = "historical" =>
        LET answer == vol.responses[1]
            method == vol.result.method
        IN  /\ ~vol.raised
            /\ answer.kind = "timeout" => method = "error"
            /\ answer.kind = "status" => method = (IF answer.code = 404 THEN "not_found" ELSE "http_error")
            /\ (answer.kind = "history" /\ Len(answer.history) < 2) => method = "insufficient_data"
            /\ (answer.kind = "history" /\ Len(answer.history) >= 2 /\ OnlyNonPositivePrices(answer.history))
                  => method = "no_valid_returns"
            /\ (answer.kind = "history" /\ \E i \in DOMAIN answer.history : answer.history[i].kind = "bad")
                  => method \in {"insufficient_data", "error"}
            /\ vol.result.score = Missing <=>
                  method \in {"insufficient_data", "no_valid_returns", "not_found", "http_error", "error"}
            /\ vol.result.score # Missing <=> method = "price_history"

\* Two or more samples, none with a positive price.
C16_Witness ==
    /\ vol.op = "historical"
    /\ vol.responses[1].kind = "history"
    /\ Len(vol.responses[1].history) >= 2
    /\ OnlyNonPositivePrices(vol.responses[1].history)
    /\ vol.result.score = Missing

(***************************************************************************)
(* migrate_volatility (scripts/migrate_volatility.py): the loop body run   *)
(* for one market of the listing.  `successful`, `failed` and the local    *)
(* `proxy_method` live across iterations; proxy_method is unbound until    *)
(* the proxy method has been called once.                                   *)
(***************************************************************************)
MaxMarkets == 3

MigrationMarkets ==
    [id : {1, 2},
     oneDayPriceChange : {Missing, Number(0)},
     one_day_price_change : {Missing, Number(0), Number(60)},
     oneWeekPriceChange : {Missing, Number(300)},
     one_week_price_change : {Missing},
     oneMonthPriceChange : {Missing},
     one_month_price_change : {Missing},
     outcomePrices : {Missing, ListOf(<<50, 50>>)},
     outcome_prices : {Missing},
     volume : {Missing, Null},
     endDate : {Missing},
     end_date : {Missing}]

\* supabase.table('market_volatility').upsert(insert_data, on_conflict='market_id')
UpsertVolatility(table, row) == {r \in table : r.market_id # row.market_id} \cup {row}

MigrateMarket(market, upsert_ok) ==
    LET real == calculate_volatility_from_price_changes(market)
        uses_proxy == IsNone(real.score)
        proxy == calculate_proxy_volatility(market)
        proxy_method == IF uses_proxy THEN proxy.method ELSE mig.proxy_method
        \* line 110: `method if real_volatility else proxy_method` reads
        \* proxy_method whenever the real score is falsy
        name_error == ~Truthy(real.score) /\ proxy_method = "unbound"
        insert_data == [market_id |-> market.id,
                        real_volatility_24h |-> real.score,
                        proxy_volatility_24h |-> IF uses_proxy THEN proxy.score ELSE Missing,
                        calculation_method |-> IF Truthy(real.score) THEN real.method ELSE proxy_method]
        stored == ~name_error /\ upsert_ok
    IN  /\ mig.processed < MaxMarkets
        /\ mig' = [table |-> IF stored THEN UpsertVolatility(mig.table, insert_data) ELSE mig.table,
                   proxy_method |-> proxy_method,
                   processed |-> mig.processed + 1,
                   successful |-> mig.successful + (IF stored THEN 1 ELSE 0),
                   failed |-> mig.failed + (IF stored THEN 0 ELSE 1),
                   last |-> [op |-> "market", market |-> market,
                             tried |-> IF uses_proxy THEN <<"price_changes", "proxy">> ELSE <<"price_changes">>,
                             real |-> real,
                             outcome |-> IF name_error THEN "name_error" ELSE IF upsert_ok THEN "stored" ELSE "upsert_failed",
                             insert_data |-> insert_data]]
        /\ UNCHANGED <<rlVars, evVars, relVars, ioVars, vol>>

NextMigration == \E market \in MigrationMarkets, upsert_ok \in BOOLEAN : MigrateMarket(market, upsert_ok)

SpecMigration == InitVolatility /\ [][NextMigration]_vars

\* C12: a caller obtaining the best available volatility for a market tries
\* the historical-series method first, the price-change method only if the
\* historical method returned no score, and the proxy method only if both
\* returned no score; the score finally stored for the market is never
\* absent.
C12_HistoricalFirst ==
    mig.last.op = "market" =>
        LET tried == mig.last.tried
        IN  /\ tried # <<>> /\ tried[1] = "historical"
            /\ \A i \in DOMAIN tried : tried[i] = "price_changes" => i = 2
            /\ \A i \in DOMAIN tried : tried[i] = "proxy" => i = 3 /\ IsNone(mig.last.real.score)
            /\ mig.last.outcome = "stored" =>
                  \/ ~IsNone(mig.last.insert_data.real_volatility_24h)
                  \/ ~IsNone(mig.last.insert_data.proxy_volatility_24h)

\* The candidates the vector service returns for a market are all different.
NoDuplicateCandidates(market_ids) ==
    \A i \in DOMAIN market_ids :
       \A j, k \in DOMAIN similar[market_ids[i]] :
          similar[market_ids[i]][j][1] = similar[market_ids[i]][k][1] => j = k

\* C26: in create_all_relations every market of the set is passed to
\* create_relations_for_market once, and the final total_created equals the
\* number of relation rows that exist after the run and did not exist before
\* it, provided the similarity service returns no duplicate candidates.
C26_TotalCreatedCountsNewRows ==
    [][ (/\ opCount' = opCount + 1
         /\ lastOp'.op = "create_all_relations"
         /\ lastOp'.confirmed
         /\ NoDuplicateCandidates(lastOp'.market_ids))
        => lastOp'.total_created
              = Cardinality(PairKeys(rows') \ PairKeys(rows)) ]_vars

\* The positions of the candidates that are the market itself or are missing
\* from the market store.
SelfOrMissing(market_id, similar_markets) ==
    {i \in DOMAIN similar_markets :
        similar_markets[i][1] = market_id \/ ~InStore(similar_markets[i][1])}

\* What C27 says of every call: created is the number of upserts of the call
\* that succeeded, created + skipped is at most the number of candidates that
\* passed the similarity threshold, and a call that returns (0, 0) because a
\* read raised persisted nothing.
CountsWithinCandidates ==
    /\ lastOp'.created
          = Cardinality(DOMAIN lastOp'.relations_to_create \ lastOp'.failing)
    /\ \A r \in rows' \ rows :
          \E i \in DOMAIN lastOp'.relations_to_create \ lastOp'.failing :
             r = RelationData(lastOp'.relations_to_create[i].market_id_1,
                              lastOp'.relations_to_create[i].market_id_2,
                              lastOp'.relations_to_create[i].similarity,
                              lastOp'.relations_to_create[i].correlation,
                              lastOp'.relations_to_create[i].pressure)
    /\ lastOp'.created + lastOp'.skipped <= Len(lastOp'.similar_markets)
    /\ lastOp'.fault # "none"
          => (lastOp'.created = 0 /\ lastOp'.skipped = 0 /\ rows' = rows)

\* C27 as stated: for every create_relations_for_market call, created is the
\* number of upserts that succeeded, created + skipped <= the number of
\* candidates that passed the similarity threshold, with equality exactly when
\* no candidate is the market itself and no candidate is missing from the
\* market store; a (0, 0) returned because of an exception persisted nothing.
C27_CountsEqualityIffNoSelfNoMissing ==
    [][ DiscoveryCall
        => /\ CountsWithinCandidates
           /\ (lastOp'.fault = "none" /\ InStore(lastOp'.market_id))
                 => ((lastOp'.created + lastOp'.skipped = Len(lastOp'.similar_markets))
                       <=> SelfOrMissing(lastOp'.market_id,
                                         lastOp'.similar_markets) = {}) ]_vars

\* C27 amended: for every create_relations_for_market call, created is the
\* number of upserts that succeeded, created + skipped <= the number of
\* candidates that passed the similarity threshold, with equality exactly when
\* every candidate that is the market itself or missing from the market store
\* is in the exclusion set (such a candidate is counted as skipped; the others
\* of them are counted in neither total); a (0, 0) returned because of an
\* exception persisted nothing.
C27_CountsEqualityIffNoneDropped ==
    [][ DiscoveryCall
        => /\ CountsWithinCandidates
           /\ (lastOp'.fault = "none" /\ InStore(lastOp'.market_id))
                 => ((lastOp'.created + lastOp'.skipped = Len(lastOp'.similar_markets))
                       <=> \A i \in SelfOrMissing(lastOp'.market_id,
                                                  lastOp'.similar_markets) :
                              lastOp'.similar_markets[i][1]
                                 \in lastOp'.existing_market_ids) ]_vars

\* C27 witness: a call in which no read raised found a stored row for a
\* candidate that is missing from the market store and counted it as skipped,
\* and created a relation: created + skipped is the number of candidates.
C27_Witness ==
    /\ lastOp.op = "create_relations_for_market"
    /\ lastOp.fault = "none"
    /\ lastOp.created >= 1
    /\ lastOp.created + lastOp.skipped = Len(lastOp.similar_markets)
    /\ \E i \in DOMAIN lastOp.similar_markets :
          /\ ~InStore(lastOp.similar_markets[i][1])
          /\ lastOp.outcomes[i] = "exists"

\* C28: for every market migrate_volatility processes, the row upserted into
\* market_volatility carries the calculation_method returned by the
\* calculation that produced that market's stored volatility value, also when
\* the real volatility is 0.0, never a label left over from a market
\* processed before; and each market increments exactly one of successful and
\* failed.
C28_MethodOfStoredValue ==
    /\ mig.processed = mig.successful + mig.failed
    /\ (mig.last.op = "market" /\ mig.last.outcome = "stored")
       => mig.last.insert_data.calculation_method
             = (IF IsNone(mig.last.real.score)
                THEN calculate_proxy_volatility(mig.last.market).method
                ELSE mig.last.real.method)

\* ------------------------------------------------------------------------
\* Python float: IEEE 754 binary64, round to nearest, ties to even
\* ------------------------------------------------------------------------

\* A natural number is a sequence of limbs, least significant first, without
\* leading zero limbs; a limb holds LimbBits bits.
LimbBits == 12
Base == 4096
\* The bits of the significand of a binary64 number.
SignificandBits == 53

Naturals64 == Seq(Nat)

Limb(n, i) == IF i \in DOMAIN n THEN n[i] ELSE 0

Strip[n \in Naturals64] ==
    IF n # <<>> /\ n[Len(n)] = 0 THEN Strip[SubSeq(n, 1, Len(n) - 1)] ELSE n

Carry[columns \in Naturals64, c \in Nat] ==
    IF columns = <<>>
    THEN IF c = 0 THEN <<>> ELSE <<c % Base>> \o Carry[<<>>, c \div Base]
    ELSE <<(Head(columns) + c) % Base>>
            \o Carry[Tail(columns), (Head(columns) + c) \div Base]

NatOf(k) == Strip[Carry[<<k>>, 0]]

NatAdd[a \in Naturals64, b \in Naturals64] ==
    Strip[Carry[[i \in 1..Max2(Len(a), Len(b)) |-> Limb(a, i) + Limb(b, i)], 0]]

\* a - b for a >= b
Borrow[a \in Naturals64, b \in Naturals64, i \in Nat, borrow \in {0, 1}] ==
    IF i > Len(a)
    THEN <<>>
    ELSE IF a[i] - Limb(b, i) - borrow < 0
    THEN <<a[i] - Limb(b, i) - borrow + Base>> \o Borrow[a, b, i + 1, 1]
    ELSE <<a[i] - Limb(b, i) - borrow>> \o Borrow[a, b, i + 1, 0]
NatSub[a \in Naturals64, b \in Naturals64] == Strip[Borrow[a, b, 1, 0]]

\* -1, 0, 1 as a is less than, equal to, greater than b
CompareFrom[a \in Naturals64, b \in Naturals64, i \in Nat] ==
    IF i = 0 THEN 0
    ELSE IF a[i] < b[i] THEN 0 - 1
    ELSE IF a[i] > b[i] THEN 1
    ELSE CompareFrom[a, b, i - 1]
NatCompare[a \in Naturals64, b \in Naturals64] ==
    IF Len(a) < Len(b) THEN 0 - 1
    ELSE IF Len(a) > Len(b) THEN 1
    ELSE CompareFrom[a, b, Len(a)]

Column[a \in Naturals64, b \in Naturals64, k \in Nat, i \in Nat] ==
    IF i > Len(a) THEN 0
    ELSE a[i] * Limb(b, k + 1 - i) + Column[a, b, k, i + 1]
NatMul[a \in Naturals64, b \in Naturals64] ==
    IF a = <<>> \/ b = <<>> THEN <<>>
    ELSE Strip[Carry[[k \in 1..(Len(a) + Len(b)) |-> Column[a, b, k, 1]], 0]]

SmallBitLength[k \in Nat] == IF k = 0 THEN 0 ELSE 1 + SmallBitLength[k \div 2]
BitLength[n \in Naturals64] ==
    IF n = <<>> THEN 0
    ELSE LimbBits * (Len(n) - 1) + SmallBitLength[n[Len(n)]]

\* n * 2^s
ShiftLeft[n \in Naturals64, s \in Nat] ==
    IF n = <<>> THEN <<>>
    ELSE Strip[Carry[[i \in 1..(s \div LimbBits) |-> 0]
                     \o [i \in 1..Len(n) |-> n[i] * 2^(s % LimbBits)], 0]]

\* n \div 2^s
ShiftRight[n \in Naturals64, s \in Nat] ==
    IF s \div LimbBits >= Len(n) THEN <<>>
    ELSE Strip[[i \in 1..(Len(n) - s \div LimbBits) |->
                  (n[i + s \div LimbBits] \div 2^(s % LimbBits))
                  + (Limb(n, i + s \div LimbBits + 1) % 2^(s % LimbBits))
                       * 2^(LimbBits - (s % LimbBits))]]

IsOdd(n) == n # <<>> /\ n[1] % 2 = 1

\* A binary64 number: sign * m * 2^e with m of SignificandBits bits, or zero.
\* Exponents stay far inside the binary64 range for the values computed here.
Doubles == [sign : {0 - 1, 0, 1}, m : Naturals64, e : Int]
Zero64 == [sign |-> 0, m |-> <<>>, e |-> 0]

\* q, the leading SignificandBits bits of n, rounded by the s bits cut off.
RoundUp[n \in Naturals64, q \in Naturals64, s \in Nat] ==
    \/ NatCompare[NatSub[n, ShiftLeft[q, s]], ShiftLeft[<<1>>, s - 1]] > 0
    \/ /\ IsOdd(q)
       /\ NatCompare[NatSub[n, ShiftLeft[q, s]], ShiftLeft[<<1>>, s - 1]] = 0
Rounded[n \in Naturals64, q \in Naturals64, s \in Nat] ==
    IF RoundUp[n, q, s] THEN NatAdd[q, <<1>>] ELSE q
Renormalized[sign \in {0 - 1, 1}, rounded \in Naturals64, e \in Int] ==
    IF BitLength[rounded] > SignificandBits
    THEN [sign |-> sign, m |-> ShiftRight[rounded, 1], e |-> e + 1]
    ELSE [sign |-> sign, m |-> rounded, e |-> e]

\* Rounding of sign * n * 2^e, n of `length` bits, to binary64.
RoundAt[sign \in {0 - 1, 1}, n \in Naturals64, e \in Int, length \in Nat] ==
    IF length <= SignificandBits
    THEN [sign |-> sign, m |-> ShiftLeft[n, SignificandBits - length],
          e |-> e + length - SignificandBits]
    ELSE Renormalized[sign,
                      Rounded[n, ShiftRight[n, length - SignificandBits],
                              length - SignificandBits],
                      e + length - SignificandBits]
Round64[sign \in {0 - 1, 1}, n \in Naturals64, e \in Int] ==
    IF n = <<>> THEN Zero64 ELSE RoundAt[sign, n, e, BitLength[n]]

FromInt(k) == Round64[IF k < 0 THEN 0 - 1 ELSE 1, NatOf(Abs(k)), 0]

FNeg[a \in Doubles] == [a EXCEPT !.sign = 0 - a.sign]
FAbs[a \in Doubles] == [a EXCEPT !.sign = a.sign * a.sign]

FMul[a \in Doubles, b \in Doubles] ==
    IF a.sign = 0 \/ b.sign = 0 THEN Zero64
    ELSE Round64[a.sign * b.sign, NatMul[a.m, b.m], a.e + b.e]

\* sa * x * 2^e + sb * y * 2^e
AddAligned[sa \in {0 - 1, 1}, x \in Naturals64, sb \in {0 - 1, 1}, y \in Naturals64, e \in Int] ==
    IF sa = sb THEN Round64[sa, NatAdd[x, y], e]
    ELSE IF NatCompare[x, y] = 0 THEN Zero64
    ELSE IF NatCompare[x, y] > 0 THEN Round64[sa, NatSub[x, y], e]
    ELSE Round64[sb, NatSub[y, x], e]

FAdd[a \in Doubles, b \in Doubles] ==
    IF a.sign = 0 THEN b
    ELSE IF b.sign = 0 THEN a
    ELSE AddAligned[a.sign, ShiftLeft[a.m, a.e - Min2(a.e, b.e)],
                    b.sign, ShiftLeft[b.m, b.e - Min2(a.e, b.e)],
                    Min2(a.e, b.e)]

FSub[a \in Doubles, b \in Doubles] == FAdd[a, FNeg[b]]

\* -1, 0, 1 as a is less than, equal to, greater than b
FCompare[a \in Doubles, b \in Doubles] ==
    IF a.sign # b.sign THEN (IF a.sign < b.sign THEN 0 - 1 ELSE 1)
    ELSE IF a.sign = 0 THEN 0
    ELSE IF a.e # b.e THEN (IF a.e < b.e THEN 0 - a.sign ELSE a.sign)
    ELSE a.sign * NatCompare[a.m, b.m]
FLess(a, b) == FCompare[a, b] < 0
FGreater(a, b) == FCompare[a, b] > 0

\* Python's max(a, b) and min(a, b): the first argument unless the second is
\* greater, respectively smaller.
FMax[a \in Doubles, b \in Doubles] == IF FGreater(b, a) THEN b ELSE a
FMin[a \in Doubles, b \in Doubles] == IF FLess(b, a) THEN b ELSE a

\* The quotient bits of remainder / d, k of them, after the bits in q, and
\* last a sticky bit for a remainder that is not zero; doubled is
\* 2 * remainder.
QuotientBits[doubled \in Naturals64, d \in Naturals64, k \in Nat, q \in Naturals64] ==
    IF k = 0
    THEN NatAdd[ShiftLeft[q, 1], IF doubled = <<>> THEN <<>> ELSE <<1>>]
    ELSE IF NatCompare[doubled, d] >= 0
    THEN QuotientBits[ShiftLeft[NatSub[doubled, d], 1], d, k - 1,
                      NatAdd[ShiftLeft[q, 1], <<1>>]]
    ELSE QuotientBits[ShiftLeft[doubled, 1], d, k - 1, ShiftLeft[q, 1]]

\* a / b for b # 0: the quotient of the significands to SignificandBits + 3
\* bits and a sticky bit, rounded.
FDiv[a \in Doubles, b \in Doubles] ==
    IF a.sign = 0 THEN Zero64
    ELSE Round64[a.sign * b.sign,
                 QuotientBits[ShiftLeft[a.m, 1], ShiftLeft[b.m, 1],
                              SignificandBits + 4, <<>>],
                 a.e - b.e - (SignificandBits + 3) - 1]

\* The binary64 value of the decimal literal k / scale.
Decimal(k, scale) == FDiv[FromInt(k), FromInt(scale)]

\* ------------------------------------------------------------------------
\* _calculate_expected_values in binary64
\* ------------------------------------------------------------------------

\* The prices and correlations the binary64 engine is applied to, in
\* hundredths.
PriceGrid64 == {0, 1, 2, 3, 10, 35, 50, 65, 90, 99, 100}
CorrelationGrid64 == {0, 9, 50, 68, 71, 83, 93, 100}

\* float(...) of a decimal literal with two places
Float64 == [i \in 0..100 |-> Decimal(i, 100)]
One64 == FromInt(1)
Thousandth64 == Decimal(1, 1000)

Probabilities64 ==
    [p_both : Doubles, p_1_only : Doubles, p_2_only : Doubles,
     p_neither : Doubles]

\* p_both before the clamp of line 78 (lines 65-75)
RawBoth64[market_p1 \in Doubles, market_p2 \in Doubles, correlation \in Doubles] ==
    IF FGreater(correlation, Float64[80])
    THEN IF FGreater(FAdd[market_p1, market_p2], One64)
         THEN FMul[FMin[market_p1, market_p2], FSub[One64, correlation]]
         ELSE FMul[FMul[market_p1, market_p2], FAdd[One64, correlation]]
    ELSE FMul[FMul[market_p1, market_p2],
              FAdd[One64, FMul[correlation, Float64[50]]]]

\* The four scenarios after the clamps of lines 86-89.
Clamped64[market_p1 \in Doubles, market_p2 \in Doubles, p_both \in Doubles] ==
    [p_both |-> p_both,
     p_1_only |-> FMax[Zero64, FSub[market_p1, p_both]],
     p_2_only |-> FMax[Zero64, FSub[market_p2, p_both]],
     p_neither |-> FMax[Zero64, FSub[FSub[FSub[One64, p_both],
                                          FSub[market_p1, p_both]],
                                     FSub[market_p2, p_both]]]]

\* The normalisation of lines 91-96 by the total of line 91.
Normalized64[clamped \in Probabilities64, total \in Doubles] ==
    IF FGreater(total, Zero64)
       /\ FGreater(FAbs[FSub[total, One64]], Thousandth64)
    THEN [p_both |-> FDiv[clamped.p_both, total],
          p_1_only |-> FDiv[clamped.p_1_only, total],
          p_2_only |-> FDiv[clamped.p_2_only, total],
          p_neither |-> FDiv[clamped.p_neither, total]]
    ELSE clamped

Normalize64[clamped \in Probabilities64] ==
    Normalized64[clamped,
                 FAdd[FAdd[FAdd[clamped.p_both, clamped.p_1_only],
                           clamped.p_2_only], clamped.p_neither]]

\* p_both .. p_neither as lines 65-96 compute them
Scenarios64[market_p1 \in Doubles, market_p2 \in Doubles, correlation \in Doubles] ==
    Normalize64[Clamped64[market_p1, market_p2,
                          FMax[Zero64,
                               FMin[RawBoth64[market_p1, market_p2, correlation],
                                    FMin[market_p1, market_p2]]]]]

\* all_evs of line 143 as lines 106-140 compute them from the scenarios s
ScenarioEvs64[s \in Probabilities64, market_p1 \in Doubles, market_p2 \in Doubles, correlation \in Doubles] ==
    << IF FGreater(market_p1, Zero64)
       THEN FSub[FMul[FAdd[s.p_both, s.p_1_only], One64], market_p1]
       ELSE Zero64,
       IF FGreater(market_p2, Zero64)
       THEN FSub[FMul[FAdd[s.p_both, s.p_2_only], One64], market_p2]
       ELSE Zero64,
       IF FLess(market_p1, One64)
       THEN FSub[FMul[FAdd[s.p_2_only, s.p_neither], One64],
                 FSub[One64, market_p1]]
       ELSE Zero64,
       IF FLess(market_p2, One64)
       THEN FSub[FMul[FAdd[s.p_1_only, s.p_neither], One64],
                 FSub[One64, market_p2]]
       ELSE Zero64,
       IF FGreater(correlation, Float64[70])
          /\ FGreater(FAbs[FSub[market_p1, market_p2]], Float64[15])
       THEN IF FGreater(market_p1, market_p2)
            THEN FSub[One64, FAdd[FSub[One64, market_p1], market_p2]]
            ELSE FSub[One64, FAdd[market_p1, FSub[One64, market_p2]]]
       ELSE Zero64 >>

StrategyEvs64[market_p1 \in Doubles, market_p2 \in Doubles, correlation \in Doubles] ==
    ScenarioEvs64[Scenarios64[market_p1, market_p2, correlation],
                  market_p1, market_p2, correlation]

\* max(strategies.items(), key=lambda x: x[1]): the first maximum
BestStrategy64[evs \in Seq(Doubles)] ==
    CHOOSE i \in 1..Len(evs) :
        /\ \A j \in 1..Len(evs) : ~FGreater(evs[j], evs[i])
        /\ \A j \in 1..(i - 1) : FLess(evs[j], evs[i])

\* The reasoning appended to best_strategy (lines 177-184).
Edge64[best_ev \in Doubles] ==
    IF FGreater(best_ev, Float64[5]) THEN "strong"
    ELSE IF FGreater(best_ev, Float64[1]) THEN "moderate"
    ELSE IF FGreater(best_ev, Zero64) THEN "slight"
    ELSE "none"

\* The result for the strategy picked as best.
Recommended64[x1 \in Nat, x2 \in Nat, c \in Nat, evs \in Seq(Doubles), best \in Nat] ==
    [status |-> "binary64", market1_price |-> x1, market2_price |-> x2,
     correlation_used |-> c, evs |-> evs, best |-> best,
     best_strategy |-> StrategyNames[best], edge |-> Edge64[evs[best]]]

Ranked64[x1 \in Nat, x2 \in Nat, c \in Nat, evs \in Seq(Doubles)] ==
    Recommended64[x1, x2, c, evs, BestStrategy64[evs]]

ExpectedValues64(x1, x2, c) ==
    Ranked64[x1, x2, c, StrategyEvs64[Float64[x1], Float64[x2], Float64[c]]]

CalculateExpectedValues64(x1, x2, c) ==
    /\ ev.status = "none"
    /\ ev' = ExpectedValues64(x1, x2, c)
    /\ UNCHANGED <<rlVars, relVars, volVars, ioVars>>

NextEngine64 ==
    \E x1, x2 \in PriceGrid64, c \in CorrelationGrid64 :
       CalculateExpectedValues64(x1, x2, c)

SpecEngine64 == InitEngine /\ [][NextEngine64]_vars

\* The binary64 number a is within half a ten-thousandth of b.
SameToFourPlaces(a, b) == FLess(FAbs[FSub[a, b]], Decimal(5, 100000))

\* C29: for every priceA, priceB and correlation in [0,1] the EVs of the two
\* YES bets are never positive and the EVs of the two NO bets never negative;
\* hence a YES strategy is reported as best only when the best EV is 0 (the
\* "no positive EV" reasoning), and whenever the arbitrage EV is nonzero it
\* equals |priceA - priceB| > 0.15.
C29_YesNeverPositive ==
    ev.status = "binary64" =>
        /\ ev.evs[1].sign <= 0
        /\ ev.evs[2].sign <= 0
        /\ ev.evs[3].sign >= 0
        /\ ev.evs[4].sign >= 0
        /\ ev.best \in {1, 2} => (ev.evs[ev.best].sign = 0 /\ ev.edge = "none")
        /\ ev.evs[5].sign # 0 =>
              /\ SameToFourPlaces(ev.evs[5],
                                  FAbs[FSub[Float64[ev.market1_price],
                                            Float64[ev.market2_price]]])
              /\ FGreater(FAbs[FSub[Float64[ev.market1_price],
                                    Float64[ev.market2_price]]], Float64[15])

\* ------------------------------------------------------------------------
\* PolymarketAPI.get_active_markets
\* ------------------------------------------------------------------------

\* The upstream has at most MaxPages non-empty pages of events and answers
\* the first requests by a script of at most MaxScript answers, every later
\* request by one persistent answer.
MaxPages == 2
MaxScript == 2

\* How the upstream answers a request: "ok" with the page asked for (empty
\* past the last page), by letting it time out, with HTTP 429, with another
\* HTTP error status.
Answers == {"ok", "timeout", "status_429", "status_500"}

Upstreams ==
    {[pages |-> n, script |-> s, persistent |-> a] :
        n \in 0..MaxPages,
        s \in UNION {[1..k -> Answers] : k \in 0..MaxScript},
        a \in Answers}

\* The answer to the next request.
Answer == IF fetch.at <= Len(fetch.upstream.script)
          THEN fetch.upstream.script[fetch.at]
          ELSE fetch.upstream.persistent

\* The request was made.
Asked == Min2(fetch.at + 1, Len(fetch.upstream.script) + 1)

\* events is not empty
HasEvents == fetch.offset < fetch.upstream.pages

\* markets.extend(...) for every event of the page, offset += limit, page += 1;
\* offset counts pages here.
Advance(state) ==
    [state EXCEPT !.markets = Append(@, state.offset), !.offset = @ + 1,
                  !.after_timeout = 0]

\* One pass through the try block of the loop (lines 31-70) and the except
\* clause the request ends in, up to the next request or sleep.
Request ==
    /\ fetch.pc = "loop"
    /\ fetch' = LET asked == [fetch EXCEPT !.at = Asked]
                IN  CASE Answer = "ok" /\ HasEvents -> Advance(asked)
                      [] Answer = "ok" /\ ~HasEvents -> [asked EXCEPT !.pc = "done"]
                      [] Answer = "timeout" -> [asked EXCEPT !.pc = "retry"]
                      [] Answer = "status_429" -> [asked EXCEPT !.pc = "backoff"]
                      [] OTHER -> [asked EXCEPT !.pc = "done"]
    /\ UNCHANGED <<rlVars, evVars, relVars, volVars, coros>>

\* The second request of the timeout handler (lines 75-96), after
\* time.sleep(5).
Retry ==
    /\ fetch.pc = "retry"
    /\ fetch' = LET asked == [fetch EXCEPT !.at = Asked, !.after_timeout = @ + 1]
                IN  IF Answer = "ok" /\ HasEvents
                    THEN [Advance(asked) EXCEPT !.pc = "loop"]
                    ELSE [asked EXCEPT !.pc = "done"]
    /\ UNCHANGED <<rlVars, evVars, relVars, volVars, coros>>

\* time.sleep(10) of the 429 handler ends; `continue` (lines 100-103).
Backoff ==
    /\ fetch.pc = "backoff"
    /\ fetch' = [fetch EXCEPT !.pc = "loop"]
    /\ UNCHANGED <<rlVars, evVars, relVars, volVars, coros>>

InitFetch ==
    /\ LimiterUnused
    /\ EngineUnused
    /\ VolatilityUnused
    /\ StoreEmpty
    /\ coros = [pc |-> "none"]
    /\ fetch \in {[pc |-> "loop", offset |-> 0, markets |-> <<>>, at |-> 1,
                   after_timeout |-> 0, upstream |-> u] : u \in Upstreams}

NextFetch == Request \/ Retry \/ Backoff

SpecFetch == InitFetch /\ [][NextFetch]_vars

\* The function runs on: a sequential program takes its next step.
SpecFetchLive == SpecFetch /\ WF_vars(NextFetch)

\* The pages appended are the pages before offset, each once and in order,
\* and the page that timed out was requested at most once more.
PagesInStep ==
    (fetch.pc # "none")
    => /\ Len(fetch.markets) = fetch.offset
       /\ \A i \in DOMAIN fetch.markets : fetch.markets[i] = i - 1
       /\ fetch.after_timeout <= 1

\* C30: get_active_markets terminates for every upstream behaviour with
\* finitely many non-empty pages: an empty page, a repeated timeout or a
\* persistent error response (HTTP 429 on every request included) ends
\* pagination after finitely many requests; the offset advances by one page
\* only after that page's markets were appended, so no page is appended twice
\* or skipped, and a timed-out page is re-requested at most once.
C30_PaginationTerminates == [](PagesInStep) /\ <>(fetch.pc = "done")
====
